---- MODULE Spec2Model ----
(***************************************************************************)
(* hvpp: the per-processor vCPU interrupt-injection engine                 *)
(* (src/src/hvpp/hvpp/vcpu.inl).                                           *)
(*                                                                         *)
(* State: the pending-interrupt ring buffer of the vcpu_t object, the      *)
(* cached exit context, and the VMCS fields the engine reads and writes.   *)
(* One action per public operation of vcpu_t; every action records the     *)
(* operation and its return value in `call`.                               *)
(***************************************************************************)
EXTENDS Integers, Sequences, FiniteSets, TLC

(***************************************************************************)
(* Bounds of the model.                                                    *)
(***************************************************************************)
\* Capacity of the ring buffer pending_interrupt_[] (vcpu.inl:55,63,74,220).
pending_interrupt_queue_size == 3

\* Largest VM-exit instruction length the CPU reports in the model.
MaxExitInstructionLength == 1

\* Number of surface accessors handlers write through in one run.
MaxWrittenAccessors == 1

(***************************************************************************)
(* Interrupt records: interrupt_info_t = (info_, error_code_, rip_adjust_) *)
(***************************************************************************)
\* vmx::interrupt_type, as named in vcpu.inl:126,178-187.
InterruptTypes ==
  { "external", "reserved", "nmi", "hardware_exception",
    "software", "privileged_exception", "software_exception", "other_event" }

\* exception_vector values named in vcpu.inl:130-140.
double_fault        == 8
invalid_tss         == 10
segment_not_present == 11
stack_segment_fault == 12
general_protection  == 13
page_fault          == 14
alignment_check     == 17

MkInterrupt(valid, type, vector, ecv, ec, adj) ==
  [ info_       |-> [ valid |-> valid, type |-> type, vector |-> vector,
                      error_code_valid |-> ecv ],
    error_code_ |-> ec,
    rip_adjust_ |-> adj ]

\* Content of a ring slot that was never written, and of the VM-entry
\* interruption-info field before the first injection.
NoInterrupt == MkInterrupt(0, "external", 0, 0, 0, -1)

\* External interrupt, vector 0x30.
ExtInt48 == MkInterrupt(1, "external", 48, 0, 0, -1)
\* #GP with error code 0x42.
GpFault66 == MkInterrupt(1, "hardware_exception", general_protection, 1, 66, -1)
\* int3 as a software exception, rip_adjust_ left at the sentinel.
Int3 == MkInterrupt(1, "software_exception", 3, 0, 0, -1)
\* A record whose valid bit is clear but whose other fields are set.
InvalidGp == MkInterrupt(0, "hardware_exception", general_protection, 1, 66, 2)

\* #GP whose record carries no error code (fails the assertion at vcpu.inl:135).
GpNoErrorCode == MkInterrupt(1, "hardware_exception", general_protection, 0, 0, -1)

\* Events handlers post through interrupt_inject in the queue model.
QueueEvents == { GpFault66, Int3 }

\* Events handlers pass to interrupt_inject_force directly in the queue model.
ForceEvents == { Int3, InvalidGp, GpNoErrorCode }

(***************************************************************************)
(* State                                                                   *)
(***************************************************************************)
VARIABLES
  pending_interrupt_,        \* ring buffer: slot index -> interrupt record
  pending_interrupt_first_,  \* index of the head slot
  pending_interrupt_count_,  \* number of queued records
  exit_context_,             \* cached guest context (only rflags is read here)
  vmcs,                      \* VMCS field -> value (vmread / vmwrite)
  vmx_procbased_ctls,        \* capability MSR: allowed-0 / allowed-1 settings
  vmx_ctls,                  \* the other capability MSRs: name -> allowed-0 / allowed-1
  msr_bitmap_,               \* the vCPU's own MSR bitmap
  io_bitmap_,                \* the vCPU's own I/O bitmap: pages a and b
  call,                      \* last operation: name, arguments, return value
  halted                     \* TRUE once an hvpp_assert has failed

vars ==
  << pending_interrupt_, pending_interrupt_first_, pending_interrupt_count_,
     exit_context_, vmcs, vmx_procbased_ctls, vmx_ctls, msr_bitmap_, io_bitmap_,
     call, halted >>

queue == << pending_interrupt_, pending_interrupt_first_, pending_interrupt_count_ >>

bitmaps == << msr_bitmap_, io_bitmap_ >>

\* The owned bitmaps before any handler has set them: no bit set.
BitmapsCleared ==
  /\ msr_bitmap_ = {}
  /\ io_bitmap_ = [ a |-> {}, b |-> {} ]

Slots == 0 .. (pending_interrupt_queue_size - 1)

(***************************************************************************)
(* VMCS access                                                             *)
(***************************************************************************)
vmread(m, field) == m[field]

vmwrite(m, field, value) == [m EXCEPT ![field] = value]

\* Bits of the primary processor-based controls the model distinguishes:
\* one flexible bit besides interrupt_window_exiting, one bit the hardware
\* reports as always 1, one it reports as always 0.
ProcbasedBits == { "interrupt_window_exiting", "hlt_exiting", "default1", "unsupported" }

\* vmx::adjust: written = (requested | fixed0_mask) & fixed1_mask.
adjust(controls) ==
  (controls \cup vmx_procbased_ctls.allowed0) \cap vmx_procbased_ctls.allowed1

\* The capability MSRs of the pin-based, secondary processor-based, VM-entry
\* and VM-exit controls.
ControlMsrs ==
  { "vmx_pinbased_ctls", "vmx_procbased_ctls2", "vmx_entry_ctls", "vmx_exit_ctls" }

\* Bits of those controls the model distinguishes: one the processor may
\* support, one it reports as always 1, one it reports as always 0.
ControlBits == { "flexible", "reserved1", "reserved0" }

\* A capability MSR of a processor that supports the flexible bit.
SupportedControls ==
  [ allowed0 |-> { "reserved1" }, allowed1 |-> { "flexible", "reserved1" } ]

\* Capability MSR values: the processor may or may not support the flexible bit.
ControlCapabilities ==
  { SupportedControls, [ allowed0 |-> { "reserved1" }, allowed1 |-> { "reserved1" } ] }

\* vmx::adjust for the control type whose capability MSR is msr.
adjust_with(msr, controls) == (controls \cup msr.allowed0) \cap msr.allowed1

\* static_cast<int>(uint32_t), vcpu.inl:190: values above INT_MAX wrap to
\* negative ones (written so that no intermediate value leaves 32 bits).
ToInt32(u) == IF u <= 2147483647 THEN u ELSE ((u - 2147483647) - 2) - 2147483647

\* implicit int -> uint32_t conversion of the argument, vcpu.inl:195; the
\* argument is positive at the only call.
ToUint32(i) == IF i >= 0 THEN i ELSE (i + 2147483647) + 2147483647 + 2

(***************************************************************************)
(* Accessors                                                               *)
(***************************************************************************)
guest_interruptibility_state(m) == vmread(m, "guest_interruptibility_state")

exit_instruction_length(m) == vmread(m, "vmexit_instruction_length")

processor_based_controls(m) == vmread(m, "ctrl_processor_based_vm_execution_controls")

\* Faulty variant: the controls are written as requested, without vmx::adjust.
set_processor_based_controls_raw(m, controls) ==
  vmwrite(m, "ctrl_processor_based_vm_execution_controls", controls)

set_processor_based_controls(m, controls) ==
  vmwrite(m, "ctrl_processor_based_vm_execution_controls", adjust(controls))

entry_interruption_info(m, info) == vmwrite(m, "ctrl_vmentry_interruption_info", info)

entry_interruption_error_code(m, error_code) ==
  vmwrite(m, "ctrl_vmentry_exception_error_code", error_code)

entry_instruction_length(m, instruction_length) ==
  vmwrite(m, "ctrl_vmentry_instruction_length", instruction_length)

(***************************************************************************)
(* interrupt_inject_force, as a function of the VMCS before the call.      *)
(* Result: the VMCS after the call and whether every hvpp_assert held; a   *)
(* failed assertion halts with the writes made before it.                  *)
(***************************************************************************)
\* Vectors of the first case group, vcpu.inl:130-134.
ErrorCodeVectors ==
  { invalid_tss, segment_not_present, stack_segment_fault, general_protection, page_fault }

\* Vectors of the second case group, vcpu.inl:139-140.
ZeroErrorCodeVectors == { double_fault, alignment_check }

\* Types of the second case group of the type switch, vcpu.inl:185-187.
SoftwareTypes == { "software", "privileged_exception", "software_exception" }

\* Faulty variant: the case group of #DF and #AC is missing from the switch.
force_error_code_no_zero_group(m, interrupt) ==
  IF interrupt.info_.type = "hardware_exception"
  THEN CASE interrupt.info_.vector \in ErrorCodeVectors ->
              IF interrupt.info_.error_code_valid = 1
              THEN [ vmcs |-> entry_interruption_error_code(m, interrupt.error_code_),
                     ok |-> TRUE ]
              ELSE [ vmcs |-> m, ok |-> FALSE ]
         [] OTHER -> [ vmcs |-> m, ok |-> TRUE ]
  ELSE [ vmcs |-> m, ok |-> TRUE ]

\* Faulty variant: for #DF and #AC only the presence of the error code is asserted.
force_error_code_no_zero_check(m, interrupt) ==
  IF interrupt.info_.type = "hardware_exception"
  THEN CASE interrupt.info_.vector \in ErrorCodeVectors ->
              IF interrupt.info_.error_code_valid = 1
              THEN [ vmcs |-> entry_interruption_error_code(m, interrupt.error_code_),
                     ok |-> TRUE ]
              ELSE [ vmcs |-> m, ok |-> FALSE ]
         [] interrupt.info_.vector \in ZeroErrorCodeVectors ->
              IF interrupt.info_.error_code_valid = 1
              THEN [ vmcs |-> entry_interruption_error_code(m, interrupt.error_code_),
                     ok |-> TRUE ]
              ELSE [ vmcs |-> m, ok |-> FALSE ]
         [] OTHER -> [ vmcs |-> m, ok |-> TRUE ]
  ELSE [ vmcs |-> m, ok |-> TRUE ]

\* vcpu.inl:126-148: result [vmcs, ok].
force_error_code(m, interrupt) ==
  IF interrupt.info_.type = "hardware_exception"
  THEN CASE interrupt.info_.vector \in ErrorCodeVectors ->
              IF interrupt.info_.error_code_valid = 1
              THEN [ vmcs |-> entry_interruption_error_code(m, interrupt.error_code_),
                     ok |-> TRUE ]
              ELSE [ vmcs |-> m, ok |-> FALSE ]
         [] interrupt.info_.vector \in ZeroErrorCodeVectors ->
              IF interrupt.info_.error_code_valid = 1 /\ interrupt.error_code_ = 0
              THEN [ vmcs |-> entry_interruption_error_code(m, interrupt.error_code_),
                     ok |-> TRUE ]
              ELSE [ vmcs |-> m, ok |-> FALSE ]
         [] OTHER -> [ vmcs |-> m, ok |-> TRUE ]
  ELSE [ vmcs |-> m, ok |-> TRUE ]

\* Faulty variant: the exit instruction length is used whatever the record holds.
force_rip_adjust_exit_length_only(m, interrupt) ==
  IF interrupt.info_.type \in SoftwareTypes
  THEN LET rip_adjust_ == ToInt32(exit_instruction_length(m))
       IN  IF rip_adjust_ > 0
           THEN entry_instruction_length(m, ToUint32(rip_adjust_))
           ELSE m
  ELSE m

\* Faulty variant: the instruction length is written for every interruption type.
force_rip_adjust_every_type(m, interrupt) ==
  LET rip_adjust_ == IF interrupt.rip_adjust_ = -1
                     THEN ToInt32(exit_instruction_length(m))
                     ELSE interrupt.rip_adjust_
  IN  IF rip_adjust_ > 0
      THEN entry_instruction_length(m, ToUint32(rip_adjust_))
      ELSE m

\* vcpu.inl:176-198.
force_rip_adjust(m, interrupt) ==
  IF interrupt.info_.type \in SoftwareTypes
  THEN LET rip_adjust_ == IF interrupt.rip_adjust_ = -1
                          THEN ToInt32(exit_instruction_length(m))
                          ELSE interrupt.rip_adjust_
       IN  IF rip_adjust_ > 0
           THEN entry_instruction_length(m, ToUint32(rip_adjust_))
           ELSE m
  ELSE m

\* Faulty variant: a record whose valid bit is clear is dropped before any write.
interrupt_inject_force_valid_only(m, interrupt) ==
  IF interrupt.info_.valid = 1
  THEN LET m1 == entry_interruption_info(m, interrupt.info_)
           r == force_error_code(m1, interrupt)
       IN  IF r.ok
           THEN [ vmcs |-> force_rip_adjust(r.vmcs, interrupt), ok |-> TRUE ]
           ELSE r
  ELSE [ vmcs |-> m, ok |-> TRUE ]

\* Faulty variant: forcing an event also disarms interrupt-window exiting.
interrupt_inject_force_disarms(m, interrupt) ==
  LET m1 == entry_interruption_info(
              set_processor_based_controls(
                m, processor_based_controls(m) \ { "interrupt_window_exiting" }),
              interrupt.info_)
  IN  IF interrupt.info_.valid = 1
      THEN LET r == force_error_code(m1, interrupt)
           IN  IF r.ok
               THEN [ vmcs |-> force_rip_adjust(r.vmcs, interrupt), ok |-> TRUE ]
               ELSE r
      ELSE [ vmcs |-> m1, ok |-> TRUE ]

\* vcpu.inl:107-200.
interrupt_inject_force(m, interrupt) ==
  LET m1 == entry_interruption_info(m, interrupt.info_)
  IN  IF interrupt.info_.valid = 1
      THEN LET r == force_error_code(m1, interrupt)
           IN  IF r.ok
               THEN [ vmcs |-> force_rip_adjust(r.vmcs, interrupt), ok |-> TRUE ]
               ELSE r
      ELSE [ vmcs |-> m1, ok |-> TRUE ]

(***************************************************************************)
(* The ring buffer                                                         *)
(***************************************************************************)
\* The queued records in delivery order: slot first_, first_ + 1, ...
\* (indices modulo the capacity).
QueueSeq(ring, first_, count_) ==
  [ k \in 1 .. count_ |-> ring[(first_ + k - 1) % pending_interrupt_queue_size] ]

PendingSeq ==
  QueueSeq(pending_interrupt_, pending_interrupt_first_, pending_interrupt_count_)

\* Faulty variant: the head does not wrap to the last slot.
push_front_index_no_wrap(first_) ==
  IF first_ = 0 THEN 0 ELSE first_ - 1

\* vcpu.inl:62-64.
push_front_index(first_) ==
  IF first_ = 0 THEN pending_interrupt_queue_size - 1 ELSE first_ - 1

\* vcpu.inl:74.
push_back_index(first_, count_) == (first_ + count_) % pending_interrupt_queue_size

\* Faulty variant: the head is not reset when it passes the last slot.
pop_front_index_no_wrap(first_, count_) ==
  IF count_ = 0 THEN 0 ELSE first_ + 1

\* Faulty variant: the head is not reset when the queue becomes empty.
pop_front_index_no_reset(first_, count_) ==
  IF first_ + 1 = pending_interrupt_queue_size THEN 0 ELSE first_ + 1

\* vcpu.inl:217-223: the head after a dequeue that leaves count_ records.
pop_front_index(first_, count_) ==
  IF count_ = 0 \/ first_ + 1 = pending_interrupt_queue_size THEN 0 ELSE first_ + 1

\* Faulty variant: RFLAGS.IF is not consulted.
not_interruptible_state_only ==
  guest_interruptibility_state(vmcs) # 0

\* vcpu.inl:47-49: the condition under which interrupt_inject defers.
not_interruptible ==
  \/ guest_interruptibility_state(vmcs) # 0
  \/ exit_context_.rflags.interrupt_enable_flag = 0

Call(op, interrupt, first, ret) ==
  [ op |-> op, interrupt |-> interrupt, first |-> first, ret |-> ret ]

(***************************************************************************)
(* Operations                                                              *)
(***************************************************************************)
\* Faulty variant: the deferral does not arm the interrupt window.
enable_interrupt_window_exiting_skipped(m) == m

\* Faulty variant: the controls are replaced by the one bit instead of
\* having the bit set in what was read.
enable_interrupt_window_exiting_only(m) ==
  set_processor_based_controls(m, { "interrupt_window_exiting" })

\* vcpu.inl:80-85.
enable_interrupt_window_exiting(m) ==
  set_processor_based_controls(
    m, processor_based_controls(m) \cup { "interrupt_window_exiting" })

\* Faulty variant: no assertion guards the full queue; the record is stored
\* over a queued one and the call returns false.
interrupt_inject_no_full_assert(interrupt, first) ==
  /\ ~halted
  /\ IF not_interruptible
     THEN /\ IF first
             THEN /\ pending_interrupt_first_' = push_front_index(pending_interrupt_first_)
                  /\ pending_interrupt_' =
                       [ pending_interrupt_ EXCEPT
                           ![push_front_index(pending_interrupt_first_)] = interrupt ]
             ELSE /\ pending_interrupt_first_' = pending_interrupt_first_
                  /\ pending_interrupt_' =
                       [ pending_interrupt_ EXCEPT
                           ![push_back_index(pending_interrupt_first_,
                                             pending_interrupt_count_)] = interrupt ]
          /\ pending_interrupt_count_' =
               IF pending_interrupt_count_ < pending_interrupt_queue_size
               THEN pending_interrupt_count_ + 1
               ELSE pending_interrupt_count_
          /\ vmcs' = set_processor_based_controls(
                       vmcs, processor_based_controls(vmcs) \cup { "interrupt_window_exiting" })
          /\ call' = Call("interrupt_inject", interrupt, first, "false")
          /\ UNCHANGED << exit_context_, vmx_procbased_ctls, vmx_ctls, bitmaps, halted >>
     ELSE LET r == interrupt_inject_force(vmcs, interrupt)
          IN  /\ vmcs' = r.vmcs
              /\ halted' = ~r.ok
              /\ call' = Call("interrupt_inject", interrupt, first,
                              IF r.ok THEN "true" ELSE "assert")
              /\ UNCHANGED << queue, exit_context_, vmx_procbased_ctls, vmx_ctls, bitmaps >>

\* Faulty variant: the record is queued at the back on the immediate path too.
interrupt_inject_queues_immediate(interrupt, first) ==
  /\ ~halted
  /\ IF not_interruptible
     THEN IF pending_interrupt_count_ < pending_interrupt_queue_size
          THEN /\ IF first
                  THEN /\ pending_interrupt_first_' = push_front_index(pending_interrupt_first_)
                       /\ pending_interrupt_' =
                            [ pending_interrupt_ EXCEPT
                                ![push_front_index(pending_interrupt_first_)] = interrupt ]
                  ELSE /\ pending_interrupt_first_' = pending_interrupt_first_
                       /\ pending_interrupt_' =
                            [ pending_interrupt_ EXCEPT
                                ![push_back_index(pending_interrupt_first_,
                                                  pending_interrupt_count_)] = interrupt ]
               /\ pending_interrupt_count_' = pending_interrupt_count_ + 1
               /\ vmcs' = enable_interrupt_window_exiting(vmcs)
               /\ call' = Call("interrupt_inject", interrupt, first, "false")
               /\ UNCHANGED << exit_context_, vmx_procbased_ctls, vmx_ctls, bitmaps, halted >>
          ELSE /\ halted' = TRUE
               /\ call' = Call("interrupt_inject", interrupt, first, "assert")
               /\ UNCHANGED << queue, exit_context_, vmcs, vmx_procbased_ctls, vmx_ctls, bitmaps >>
     ELSE LET r == interrupt_inject_force(vmcs, interrupt)
              queued == pending_interrupt_count_ < pending_interrupt_queue_size
          IN  /\ vmcs' = r.vmcs
              /\ halted' = ~r.ok
              /\ call' = Call("interrupt_inject", interrupt, first,
                              IF r.ok THEN "true" ELSE "assert")
              /\ pending_interrupt_' =
                   IF queued
                   THEN [ pending_interrupt_ EXCEPT
                            ![push_back_index(pending_interrupt_first_,
                                              pending_interrupt_count_)] = interrupt ]
                   ELSE pending_interrupt_
              /\ pending_interrupt_count_' =
                   IF queued THEN pending_interrupt_count_ + 1 ELSE pending_interrupt_count_
              /\ UNCHANGED << pending_interrupt_first_, exit_context_, vmx_procbased_ctls,
                              vmx_ctls, bitmaps >>

\* vcpu.inl:39-105.
interrupt_inject(interrupt, first) ==
  /\ ~halted
  /\ IF not_interruptible
     THEN IF pending_interrupt_count_ < pending_interrupt_queue_size
          THEN /\ IF first
                  THEN /\ pending_interrupt_first_' = push_front_index(pending_interrupt_first_)
                       /\ pending_interrupt_' =
                            [ pending_interrupt_ EXCEPT
                                ![push_front_index(pending_interrupt_first_)] = interrupt ]
                  ELSE /\ pending_interrupt_first_' = pending_interrupt_first_
                       /\ pending_interrupt_' =
                            [ pending_interrupt_ EXCEPT
                                ![push_back_index(pending_interrupt_first_,
                                                  pending_interrupt_count_)] = interrupt ]
               /\ pending_interrupt_count_' = pending_interrupt_count_ + 1
               /\ vmcs' = enable_interrupt_window_exiting(vmcs)
               /\ call' = Call("interrupt_inject", interrupt, first, "false")
               /\ UNCHANGED << exit_context_, vmx_procbased_ctls, vmx_ctls, bitmaps, halted >>
          ELSE /\ halted' = TRUE
               /\ call' = Call("interrupt_inject", interrupt, first, "assert")
               /\ UNCHANGED << queue, exit_context_, vmcs, vmx_procbased_ctls, vmx_ctls, bitmaps >>
     ELSE LET r == interrupt_inject_force(vmcs, interrupt)
          IN  /\ vmcs' = r.vmcs
              /\ halted' = ~r.ok
              /\ call' = Call("interrupt_inject", interrupt, first,
                              IF r.ok THEN "true" ELSE "assert")
              /\ UNCHANGED << queue, exit_context_, vmx_procbased_ctls, vmx_ctls, bitmaps >>

\* vcpu.inl:107-200, called directly by a handler.
call_interrupt_inject_force(interrupt) ==
  /\ ~halted
  /\ LET r == interrupt_inject_force(vmcs, interrupt)
     IN  /\ vmcs' = r.vmcs
         /\ halted' = ~r.ok
         /\ call' = Call("interrupt_inject_force", interrupt, FALSE,
                         IF r.ok THEN "void" ELSE "assert")
  /\ UNCHANGED << queue, exit_context_, vmx_procbased_ctls, vmx_ctls, bitmaps >>

\* Faulty variant: off by one.
interrupt_is_pending_above_one == pending_interrupt_count_ > 1

\* vcpu.inl:228-231.
interrupt_is_pending == pending_interrupt_count_ > 0

\* vcpu.inl:228-231, called by a handler: the return value is recorded.
call_interrupt_is_pending ==
  /\ ~halted
  /\ call' = Call("interrupt_is_pending", NoInterrupt, FALSE,
                  IF interrupt_is_pending THEN "true" ELSE "false")
  /\ UNCHANGED << queue, exit_context_, vmcs, vmx_procbased_ctls, vmx_ctls, bitmaps, halted >>

\* Faulty variant: no assertion guards the empty queue; the record in the
\* head slot is forced although it is not queued.
interrupt_inject_pending_no_assert ==
  /\ ~halted
  /\ LET interrupt == pending_interrupt_[pending_interrupt_first_]
         r == interrupt_inject_force(vmcs, interrupt)
     IN  /\ pending_interrupt_count_' =
              IF pending_interrupt_count_ > 0 THEN pending_interrupt_count_ - 1 ELSE 0
         /\ pending_interrupt_first_' =
              IF pending_interrupt_count_ > 0
              THEN pop_front_index(pending_interrupt_first_, pending_interrupt_count_ - 1)
              ELSE 0
         /\ vmcs' = r.vmcs
         /\ halted' = ~r.ok
         /\ call' = Call("interrupt_inject_pending", NoInterrupt, FALSE,
                         IF r.ok THEN "void" ELSE "assert")
         /\ UNCHANGED << pending_interrupt_, exit_context_, vmx_procbased_ctls, vmx_ctls, bitmaps >>

\* vcpu.inl:202-226.
interrupt_inject_pending ==
  /\ ~halted
  /\ IF interrupt_is_pending /\ pending_interrupt_count_ <= pending_interrupt_queue_size
     THEN LET interrupt == pending_interrupt_[pending_interrupt_first_]
              r == interrupt_inject_force(vmcs, interrupt)
          IN  /\ pending_interrupt_count_' = pending_interrupt_count_ - 1
              /\ pending_interrupt_first_' =
                   pop_front_index(pending_interrupt_first_, pending_interrupt_count_ - 1)
              /\ vmcs' = r.vmcs
              /\ halted' = ~r.ok
              /\ call' = Call("interrupt_inject_pending", NoInterrupt, FALSE,
                              IF r.ok THEN "void" ELSE "assert")
              /\ UNCHANGED << pending_interrupt_, exit_context_, vmx_procbased_ctls, vmx_ctls, bitmaps >>
     ELSE /\ halted' = TRUE
          /\ call' = Call("interrupt_inject_pending", NoInterrupt, FALSE, "assert")
          /\ UNCHANGED << queue, exit_context_, vmcs, vmx_procbased_ctls, vmx_ctls, bitmaps >>

\* vcpu.inl:682-685: the guest_rflags writer (VMCS field only).
set_guest_rflags(rflags) ==
  /\ ~halted
  /\ vmcs' = vmwrite(vmcs, "guest_rflags", rflags)
  /\ call' = Call("guest_rflags", NoInterrupt, FALSE, "void")
  /\ UNCHANGED << queue, exit_context_, vmx_procbased_ctls, vmx_ctls, bitmaps, halted >>

\* The guest runs and exits again: the CPU stores the guest's interruptibility
\* state and RFLAGS and the exit instruction length in the VMCS, and the host
\* entry point captures the guest RFLAGS in the cached exit context.
vm_exit(interruptibility, rflags, length) ==
  /\ ~halted
  /\ vmcs' = vmwrite(vmwrite(vmwrite(vmcs,
                "guest_interruptibility_state", interruptibility),
                "guest_rflags", rflags),
                "vmexit_instruction_length", length)
  /\ exit_context_' = [ rflags |-> rflags ]
  /\ call' = Call("vm_exit", NoInterrupt, FALSE, "void")
  /\ UNCHANGED << queue, vmx_procbased_ctls, vmx_ctls, bitmaps, halted >>

(***************************************************************************)
(* Specification of the injection engine                                   *)
(***************************************************************************)
RFlags == { [ interrupt_enable_flag |-> b ] : b \in 0 .. 1 }

InterruptibilityStates == 0 .. 1

ExitInstructionLengths == 0 .. MaxExitInstructionLength

\* Capability MSR values: the processor may or may not support
\* interrupt-window exiting.
ProcbasedCapabilities ==
  { [ allowed0 |-> { "default1" }, allowed1 |-> ProcbasedBits \ { "unsupported" } ],
    [ allowed0 |-> { "default1" },
      allowed1 |-> ProcbasedBits \ { "unsupported", "interrupt_window_exiting" } ] }

\* The state after construction, on any processor.
InitAnyProcessor ==
  /\ pending_interrupt_ = [ s \in Slots |-> NoInterrupt ]
  /\ pending_interrupt_first_ = 0
  /\ pending_interrupt_count_ = 0
  /\ exit_context_ = [ rflags |-> [ interrupt_enable_flag |-> 1 ] ]
  /\ vmx_procbased_ctls \in ProcbasedCapabilities
  /\ vmx_ctls = [ msr \in ControlMsrs |-> SupportedControls ]
  /\ BitmapsCleared
  /\ vmcs = [ guest_interruptibility_state |-> 0,
              guest_rflags |-> [ interrupt_enable_flag |-> 1 ],
              vmexit_instruction_length |-> 0,
              ctrl_processor_based_vm_execution_controls |-> vmx_procbased_ctls.allowed0,
              ctrl_vmentry_interruption_info |-> NoInterrupt.info_,
              ctrl_vmentry_exception_error_code |-> 0,
              ctrl_vmentry_instruction_length |-> 0 ]
  /\ call = Call("init", NoInterrupt, FALSE, "void")
  /\ halted = FALSE

\* The state after construction on a processor that supports
\* interrupt-window exiting.
Init ==
  /\ InitAnyProcessor
  /\ "interrupt_window_exiting" \in vmx_procbased_ctls.allowed1

Next ==
  \/ \E interrupt \in QueueEvents, first \in BOOLEAN : interrupt_inject(interrupt, first)
  \/ \E interrupt \in ForceEvents : call_interrupt_inject_force(interrupt)
  \/ interrupt_inject_pending
  \/ \E i \in InterruptibilityStates, rflags \in RFlags, length \in ExitInstructionLengths :
       vm_exit(i, rflags, length)

Spec == Init /\ [][Next]_vars

(***************************************************************************)
(* Specification of the handlers' view: on any processor, handlers post    *)
(* one kind of event and also write the guest RFLAGS field of the VMCS.    *)
(***************************************************************************)
NextHandlers ==
  \/ \E first \in BOOLEAN : interrupt_inject(GpFault66, first)
  \/ interrupt_inject_pending
  \/ \E rflags \in RFlags : set_guest_rflags(rflags)
  \/ call_interrupt_is_pending
  \/ \E i \in InterruptibilityStates, rflags \in RFlags, length \in ExitInstructionLengths :
       vm_exit(i, rflags, length)

SpecHandlers == InitAnyProcessor /\ [][NextHandlers]_vars

(***************************************************************************)
(* Properties of the injection engine                                      *)
(***************************************************************************)
entry_info_of(m) == vmread(m, "ctrl_vmentry_interruption_info")

entry_error_code_of(m) == vmread(m, "ctrl_vmentry_exception_error_code")

entry_length_of(m) == vmread(m, "ctrl_vmentry_instruction_length")

EntryFields(m) == << entry_info_of(m), entry_error_code_of(m), entry_length_of(m) >>

\* The step is a call of op that returned (no assertion failed in it).
Returned(op) == call'.op = op /\ ~halted'

\* C1 (as claimed): interrupt_inject returns true exactly when the VMCS guest
\* interruptibility state is 0 and the IF bit of the VMCS guest_rflags field is 1.
C1_AsClaimed ==
  [][ Returned("interrupt_inject") =>
        ( call'.ret = "true" <=>
            ( /\ guest_interruptibility_state(vmcs) = 0
              /\ vmread(vmcs, "guest_rflags").interrupt_enable_flag = 1 ) ) ]_vars

\* C1 (amended): interrupt_inject returns true, having written the event to the
\* VM-entry interruption-info field, exactly when the VMCS guest interruptibility
\* state is 0 and the IF bit of the cached exit context's rflags is 1; in every
\* other case it returns false and leaves the VM-entry fields as they were.
C1_InjectImmediateIffInterruptible ==
  [][ Returned("interrupt_inject") =>
        LET interruptible ==
              /\ guest_interruptibility_state(vmcs) = 0
              /\ exit_context_.rflags.interrupt_enable_flag = 1
        IN  /\ call'.ret = "true" <=> interruptible
            /\ call'.ret = "false" <=> ~interruptible
            /\ interruptible => entry_info_of(vmcs') = call'.interrupt.info_
            /\ ~interruptible => EntryFields(vmcs') = EntryFields(vmcs) ]_vars

\* C1 witness: an immediate injection of a valid event has returned true.
C1_Witness ==
  /\ call.op = "interrupt_inject"
  /\ call.ret = "true"
  /\ call.interrupt = GpFault66
  /\ entry_info_of(vmcs) = GpFault66.info_
  /\ exit_context_.rflags.interrupt_enable_flag = 1
  /\ vmread(vmcs, "guest_rflags").interrupt_enable_flag = 0

\* C2: the ring buffer behaves as a double-ended queue of records: a deferred
\* interrupt_inject appends its record at the back, or with first = TRUE puts it
\* in front of every queued record; interrupt_inject_pending removes the front
\* record and passes exactly that record to interrupt_inject_force; no other
\* step changes the queued records or their order.
C2_DeliveryOrder ==
  [][ ~halted' =>
        CASE call'.op = "interrupt_inject" /\ call'.ret = "false" /\ ~call'.first ->
               PendingSeq' = Append(PendingSeq, call'.interrupt)
          [] call'.op = "interrupt_inject" /\ call'.ret = "false" /\ call'.first ->
               PendingSeq' = << call'.interrupt >> \o PendingSeq
          [] call'.op = "interrupt_inject_pending" ->
               /\ PendingSeq # << >>
               /\ PendingSeq' = Tail(PendingSeq)
               /\ vmcs' = interrupt_inject_force(vmcs, Head(PendingSeq)).vmcs
               /\ entry_info_of(vmcs') = Head(PendingSeq).info_
          [] OTHER -> PendingSeq' = PendingSeq ]_vars

\* C2 witness: interrupt_inject_pending has delivered a record from a queue
\* whose records lie across the end of the array (head at the last slot).
C2_Witness ==
  /\ call.op = "interrupt_inject_pending"
  /\ ~halted
  /\ pending_interrupt_first_ = pending_interrupt_queue_size - 1
  /\ pending_interrupt_count_ = 2
  /\ PendingSeq = << Int3, GpFault66 >>

\* C3: the count stays within 0 .. queue_size and the head within
\* 0 .. queue_size - 1.
C3_QueueBounds ==
  /\ pending_interrupt_count_ \in 0 .. pending_interrupt_queue_size
  /\ pending_interrupt_first_ \in 0 .. (pending_interrupt_queue_size - 1)

\* C3 witness: a full queue whose head is the last slot of the array.
C3_Witness ==
  /\ pending_interrupt_count_ = pending_interrupt_queue_size
  /\ pending_interrupt_first_ = pending_interrupt_queue_size - 1

\* The step is a call of interrupt_inject that takes the deferred path
\* with room in the queue.
DeferredInject ==
  /\ call'.op = "interrupt_inject"
  /\ vars' # vars
  /\ not_interruptible
  /\ pending_interrupt_count_ < pending_interrupt_queue_size

\* C4 (as claimed): a deferred interrupt_inject returns false, raises the count
\* by exactly 1, and afterwards the processor-based controls read back from the
\* VMCS have interrupt_window_exiting set.
C4_AsClaimed ==
  [][ DeferredInject =>
        /\ call'.ret = "false"
        /\ pending_interrupt_count_' = pending_interrupt_count_ + 1
        /\ "interrupt_window_exiting" \in processor_based_controls(vmcs') ]_vars

\* C4 (amended): a deferred interrupt_inject returns false, raises the count by
\* exactly 1, and writes the processor-based controls as the adjusted value of
\* the previous controls with interrupt_window_exiting set; the bit reads back
\* as 1 provided the capability MSR allows it to be 1.
C4_DeferredInject ==
  [][ DeferredInject =>
        /\ call'.ret = "false"
        /\ pending_interrupt_count_' = pending_interrupt_count_ + 1
        /\ processor_based_controls(vmcs') =
             adjust(processor_based_controls(vmcs) \cup { "interrupt_window_exiting" })
        /\ "interrupt_window_exiting" \in vmx_procbased_ctls.allowed1 =>
             "interrupt_window_exiting" \in processor_based_controls(vmcs') ]_vars

\* C4 witness: the first deferred injection has armed interrupt-window exiting.
C4_Witness ==
  /\ call.op = "interrupt_inject"
  /\ call.ret = "false"
  /\ pending_interrupt_count_ = 1
  /\ exit_context_.rflags.interrupt_enable_flag = 0
  /\ "interrupt_window_exiting" \in processor_based_controls(vmcs)

\* C5: interrupt_inject_pending on a non-empty queue removes the record in the
\* head slot, lowers the count by 1, moves the head to the next slot (to slot 0
\* when the queue becomes empty or the head passes the last slot), leaves the
\* slots as they are, and passes the removed record to interrupt_inject_force,
\* so the VM-entry interruption-info field holds that record's info.
C5_InjectPending ==
  [][ ( /\ call'.op = "interrupt_inject_pending"
        /\ vars' # vars
        /\ pending_interrupt_count_ > 0 ) =>
        LET interrupt == pending_interrupt_[pending_interrupt_first_]
        IN  /\ pending_interrupt_count_' = pending_interrupt_count_ - 1
            /\ pending_interrupt_first_' =
                 IF \/ pending_interrupt_count_ = 1
                    \/ pending_interrupt_first_ = pending_interrupt_queue_size - 1
                 THEN 0
                 ELSE pending_interrupt_first_ + 1
            /\ pending_interrupt_' = pending_interrupt_
            /\ PendingSeq' = Tail(PendingSeq)
            /\ entry_info_of(vmcs') = interrupt.info_
            /\ vmcs' = interrupt_inject_force(vmcs, interrupt).vmcs ]_vars

\* C5 witness: the last queued record was delivered from a slot other than
\* slot 0 and the head went back to slot 0.
C5_Witness ==
  /\ call.op = "interrupt_inject_pending"
  /\ ~halted
  /\ pending_interrupt_count_ = 0
  /\ pending_interrupt_first_ = 0
  /\ pending_interrupt_[1] = Int3
  /\ pending_interrupt_[0] = GpFault66
  /\ entry_info_of(vmcs) = Int3.info_

\* C10: interrupt_inject_force always writes the VM-entry interruption-info
\* field with the record's info, whatever the guest's interruptibility and the
\* queue hold; for a record whose valid bit is clear it writes nothing else;
\* and it never changes the head, the count or any slot of the queue.
C10_ForceFrame ==
  [][ call'.op = "interrupt_inject_force" =>
        /\ entry_info_of(vmcs') = call'.interrupt.info_
        /\ queue' = queue
        /\ call'.interrupt.info_.valid = 0 =>
             vmcs' = [ vmcs EXCEPT !["ctrl_vmentry_interruption_info"] =
                                      call'.interrupt.info_ ] ]_vars

\* C10 witness: a record with a clear valid bit was forced while two records
\* were queued and the guest was not interruptible; only the info field changed.
C10_Witness ==
  /\ call.op = "interrupt_inject_force"
  /\ call.interrupt = InvalidGp
  /\ pending_interrupt_count_ = 2
  /\ guest_interruptibility_state(vmcs) = 1
  /\ entry_info_of(vmcs) = InvalidGp.info_
  /\ entry_error_code_of(vmcs) = 0
  /\ entry_length_of(vmcs) = 0

\* C11: interrupt_inject called while the guest is not interruptible and the
\* queue is full fails its assertion: the vCPU halts with the slots, the head,
\* the count and the whole VMCS (the processor-based controls included) as they
\* were, so no queued record is overwritten.
C11_FullQueueAsserts ==
  [][ ( /\ call'.op = "interrupt_inject"
        /\ vars' # vars
        /\ not_interruptible
        /\ pending_interrupt_count_ = pending_interrupt_queue_size ) =>
        /\ halted'
        /\ call'.ret = "assert"
        /\ queue' = queue
        /\ PendingSeq' = PendingSeq
        /\ vmcs' = vmcs ]_vars

\* C11 witness: interrupt_inject with first = TRUE has failed its assertion on
\* a full queue whose head is slot 0; the slot before the head still holds the
\* record queued there.
C11_Witness ==
  /\ halted
  /\ call.op = "interrupt_inject"
  /\ call.ret = "assert"
  /\ call.first
  /\ call.interrupt = Int3
  /\ pending_interrupt_count_ = pending_interrupt_queue_size
  /\ pending_interrupt_first_ = 0
  /\ \A s \in Slots : pending_interrupt_[s] = GpFault66

\* C12: interrupt_is_pending returns true exactly when the count is above 0
\* and changes nothing; interrupt_inject_pending called on an empty queue fails
\* its assertion with the head, the count, the slots and the VM-entry fields as
\* they were.
C12_PendingPrecondition ==
  [][ /\ call'.op = "interrupt_is_pending" =>
           /\ call'.ret = "true" <=> pending_interrupt_count_ > 0
           /\ call'.ret = "false" <=> pending_interrupt_count_ = 0
           /\ queue' = queue /\ vmcs' = vmcs /\ ~halted'
      /\ ( /\ call'.op = "interrupt_inject_pending"
           /\ vars' # vars
           /\ pending_interrupt_count_ = 0 ) =>
           /\ halted'
           /\ call'.ret = "assert"
           /\ queue' = queue
           /\ EntryFields(vmcs') = EntryFields(vmcs)
           /\ vmcs' = vmcs ]_vars

\* C12 witness: interrupt_inject_pending has failed its assertion on a queue
\* that a delivery had emptied; the VM-entry fields hold the delivered record.
C12_Witness ==
  /\ halted
  /\ call.op = "interrupt_inject_pending"
  /\ call.ret = "assert"
  /\ pending_interrupt_count_ = 0
  /\ pending_interrupt_[0] = GpFault66
  /\ entry_info_of(vmcs) = GpFault66.info_
  /\ entry_error_code_of(vmcs) = 66

(***************************************************************************)
(* Specification of interrupt_inject_force alone: handlers force records   *)
(* of every interruption type, with and without error codes, between VM    *)
(* exits that report different instruction lengths.                        *)
(***************************************************************************)
\* Exception vectors of the model: breakpoint (3) and invalid opcode (6),
\* which push no error code, and the seven vectors the switch names.
ExceptionVectors ==
  { 3, 6 } \cup ErrorCodeVectors \cup ZeroErrorCodeVectors

\* Hardware exceptions of every vector, with and without an error code.
HardwareExceptionEvents ==
  { MkInterrupt(valid, "hardware_exception", vector, ecv, ec, adj) :
      valid \in 0 .. 1, vector \in ExceptionVectors, ecv \in 0 .. 1,
      ec \in { 0, 66 }, adj \in { -1, 2 } }

\* Records of every interruption type, with every kind of rip_adjust_.
TypedEvents ==
  { MkInterrupt(valid, type, vector, 0, 0, adj) :
      valid \in 0 .. 1, type \in InterruptTypes, vector \in { 3, 48 },
      adj \in { -2, -1, 0, 2 } }

AllEvents == HardwareExceptionEvents \cup TypedEvents

NextForce ==
  \/ \E interrupt \in AllEvents : call_interrupt_inject_force(interrupt)
  \/ \E length \in ExitInstructionLengths :
       vm_exit(0, [ interrupt_enable_flag |-> 1 ], length)

SpecForce == Init /\ [][NextForce]_vars

\* C7: interrupt_inject_force of a valid hardware exception whose vector is one
\* of 8, 10, 11, 12, 13, 14, 17 writes the record's error code to the VM-entry
\* exception error-code field; for any other vector it leaves the field alone.
C7_ErrorCodeWritten ==
  [][ ( /\ Returned("interrupt_inject_force")
        /\ call'.interrupt.info_.valid = 1
        /\ call'.interrupt.info_.type = "hardware_exception" ) =>
        IF call'.interrupt.info_.vector \in { 8, 10, 11, 12, 13, 14, 17 }
        THEN entry_error_code_of(vmcs') = call'.interrupt.error_code_
        ELSE entry_error_code_of(vmcs') = entry_error_code_of(vmcs) ]_vars

\* C7 witness: #GP with error code 0x42 was forced and the field holds 0x42.
C7_Witness ==
  /\ call.op = "interrupt_inject_force"
  /\ ~halted
  /\ call.interrupt.info_ =
       [ valid |-> 1, type |-> "hardware_exception", vector |-> 13, error_code_valid |-> 1 ]
  /\ call.interrupt.error_code_ = 66
  /\ entry_error_code_of(vmcs) = 66

\* C8: interrupt_inject_force of a valid software interrupt, privileged
\* software exception or software exception takes as rip_adjust the exit
\* instruction length if the record holds -1 and the record's value otherwise;
\* a value above 0 is written to the VM-entry instruction-length field, and
\* with a value of 0 or less the field is left alone.
C8_InstructionLength ==
  [][ ( /\ Returned("interrupt_inject_force")
        /\ call'.interrupt.info_.valid = 1
        /\ call'.interrupt.info_.type \in
             { "software", "privileged_exception", "software_exception" } ) =>
        LET resolved == IF call'.interrupt.rip_adjust_ = -1
                        THEN exit_instruction_length(vmcs)
                        ELSE call'.interrupt.rip_adjust_
        IN  IF resolved > 0
            THEN entry_length_of(vmcs') = resolved
            ELSE entry_length_of(vmcs') = entry_length_of(vmcs) ]_vars

\* C8 witness: int3 with rip_adjust_ = -1 was forced while the exit
\* instruction length was 1, and the VM-entry instruction length is 1.
C8_Witness ==
  /\ call.op = "interrupt_inject_force"
  /\ call.interrupt = MkInterrupt(1, "software_exception", 3, 0, 0, -1)
  /\ exit_instruction_length(vmcs) = 1
  /\ entry_length_of(vmcs) = 1

\* C9: interrupt_inject_force of an external interrupt, NMI, hardware exception
\* or other event leaves the VM-entry instruction-length field alone, whatever
\* the record's rip_adjust_ and the exit instruction length.
C9_LengthUntouched ==
  [][ ( /\ call'.op = "interrupt_inject_force"
        /\ call'.interrupt.info_.type \in
             { "external", "nmi", "hardware_exception", "other_event" } ) =>
        entry_length_of(vmcs') = entry_length_of(vmcs) ]_vars

\* C9 witness: a valid NMI with rip_adjust_ = 2 was forced while the exit
\* instruction length was 1, and the VM-entry instruction length is still 0.
C9_Witness ==
  /\ call.op = "interrupt_inject_force"
  /\ call.interrupt = MkInterrupt(1, "nmi", 3, 0, 0, 2)
  /\ exit_instruction_length(vmcs) = 1
  /\ entry_length_of(vmcs) = 0

\* C13: interrupt_inject_force of a valid hardware exception fails an assertion
\* exactly when the vector is one of 10, 11, 12, 13, 14 and the record carries
\* no error code, or the vector is 8 or 17 and the record carries no error code
\* or a non-zero one; the info field is written before the assertion.
C13_ErrorCodeAsserts ==
  [][ ( /\ call'.op = "interrupt_inject_force"
        /\ vars' # vars
        /\ call'.interrupt.info_.valid = 1
        /\ call'.interrupt.info_.type = "hardware_exception" ) =>
        LET vector == call'.interrupt.info_.vector
            error_code_valid == call'.interrupt.info_.error_code_valid
            error_code == call'.interrupt.error_code_
            fails == \/ vector \in { 10, 11, 12, 13, 14 } /\ error_code_valid = 0
                     \/ vector \in { 8, 17 } /\ (error_code_valid = 0 \/ error_code # 0)
        IN  /\ halted' <=> fails
            /\ call'.ret = "assert" <=> fails
            /\ entry_info_of(vmcs') = call'.interrupt.info_
            /\ fails => entry_error_code_of(vmcs') = entry_error_code_of(vmcs) ]_vars

\* C13 witness: #DF with the non-zero error code 0x42 was forced and the
\* assertion failed after the info field was written.
C13_Witness ==
  /\ halted
  /\ call.op = "interrupt_inject_force"
  /\ call.ret = "assert"
  /\ call.interrupt.info_ =
       [ valid |-> 1, type |-> "hardware_exception", vector |-> 8, error_code_valid |-> 1 ]
  /\ call.interrupt.error_code_ = 66
  /\ entry_info_of(vmcs) = call.interrupt.info_

(***************************************************************************)
(* Specification of delivery: handlers keep posting events, never with a   *)
(* failing assertion, and the interrupt-window exit, which calls           *)
(* interrupt_inject_pending while records are queued, is weakly fair.      *)
(* The external interrupt 0x30 is posted only while no copy of it is       *)
(* queued, so that its record can be followed through the queue.           *)
(***************************************************************************)
InQueue(interrupt) ==
  \E k \in 1 .. pending_interrupt_count_ : PendingSeq[k] = interrupt

\* The hvpp_assert at vcpu.inl:55 holds for a call made in this state.
inject_allowed ==
  not_interruptible => pending_interrupt_count_ < pending_interrupt_queue_size

\* The interrupt-window exit handler: delivers a queued record.
interrupt_window_exit ==
  /\ interrupt_is_pending
  /\ interrupt_inject_pending

NextLive ==
  \/ \E first \in BOOLEAN :
       /\ inject_allowed
       /\ ~InQueue(ExtInt48)
       /\ interrupt_inject(ExtInt48, first)
  \/ \E first \in BOOLEAN :
       /\ inject_allowed
       /\ interrupt_inject(GpFault66, first)
  \/ interrupt_window_exit
  \/ \E i \in InterruptibilityStates, rflags \in RFlags, length \in ExitInstructionLengths :
       vm_exit(i, rflags, length)

SpecLive == InitAnyProcessor /\ [][NextLive]_vars /\ WF_vars(interrupt_window_exit)

\* The last step delivered the record: interrupt_inject_pending wrote its
\* info to the VM-entry interruption-info field.
Delivered(interrupt) ==
  /\ call.op = "interrupt_inject_pending"
  /\ entry_info_of(vmcs) = interrupt.info_

\* A deferred interrupt_inject with first = TRUE.
PushFrontStep ==
  /\ call'.op = "interrupt_inject"
  /\ call'.first
  /\ pending_interrupt_count_' = pending_interrupt_count_ + 1

\* C6 (as claimed): with the interrupt-window exit weakly fair and handlers
\* free to keep posting events, also with first = TRUE, every queued record is
\* eventually delivered.
C6_AsClaimed == InQueue(ExtInt48) ~> Delivered(ExtInt48)

\* C6 (amended): with the interrupt-window exit weakly fair, every queued
\* record is eventually delivered unless handlers post events with
\* first = TRUE again and again without end.
C6_EventuallyDelivered ==
  ([]<><<PushFrontStep>>_vars) \/ (InQueue(ExtInt48) ~> Delivered(ExtInt48))

\* C6 witness: the followed record was queued behind another record and has
\* been delivered by interrupt_inject_pending.
C6_Witness ==
  /\ Delivered(ExtInt48)
  /\ ~InQueue(ExtInt48)
  /\ pending_interrupt_[1] = ExtInt48
  /\ pending_interrupt_[0] = GpFault66
  /\ pending_interrupt_first_ = 2

(***************************************************************************)
(* The control surface: typed read and write accessors of the VMCS fields. *)
(* A call is recorded with its accessor, whether it is the writer, and its *)
(* argument and return value as sequences: << >> for none, << v >> for v.  *)
(***************************************************************************)
Access(op, write, arg, ret) ==
  [ op |-> op, write |-> write, arg |-> arg, ret |-> ret ]

\* The engine's members as the constructor leaves them; the surface
\* accessors do not touch them.
EngineIdle ==
  /\ pending_interrupt_ = [ s \in Slots |-> NoInterrupt ]
  /\ pending_interrupt_first_ = 0
  /\ pending_interrupt_count_ = 0
  /\ exit_context_ = [ rflags |-> [ interrupt_enable_flag |-> 1 ] ]
  /\ halted = FALSE

\* vcpu.inl:298-303.
pin_based_controls(m) == vmread(m, "ctrl_pin_based_vm_execution_controls")

\* vcpu.inl:305-308.
set_pin_based_controls(m, controls) ==
  vmwrite(m, "ctrl_pin_based_vm_execution_controls",
          adjust_with(vmx_ctls.vmx_pinbased_ctls, controls))

\* vcpu.inl:322-327.
processor_based_controls2(m) ==
  vmread(m, "ctrl_secondary_processor_based_vm_execution_controls")

\* vcpu.inl:329-332.
set_processor_based_controls2(m, controls) ==
  vmwrite(m, "ctrl_secondary_processor_based_vm_execution_controls",
          adjust_with(vmx_ctls.vmx_procbased_ctls2, controls))

\* vcpu.inl:334-339.
vm_entry_controls(m) == vmread(m, "ctrl_vmentry_controls")

\* vcpu.inl:341-344.
set_vm_entry_controls(m, controls) ==
  vmwrite(m, "ctrl_vmentry_controls", adjust_with(vmx_ctls.vmx_entry_ctls, controls))

\* vcpu.inl:346-351.
vm_exit_controls(m) == vmread(m, "ctrl_vmexit_controls")

\* Faulty variant: the VM-exit controls are written as requested.
set_vm_exit_controls_raw(m, controls) ==
  vmwrite(m, "ctrl_vmexit_controls", controls)

\* vcpu.inl:353-356.
set_vm_exit_controls(m, controls) ==
  vmwrite(m, "ctrl_vmexit_controls", adjust_with(vmx_ctls.vmx_exit_ctls, controls))

\* The five accessor pairs whose writers adjust.
ControlAccessors ==
  { "pin_based_controls", "processor_based_controls", "processor_based_controls2",
    "vm_entry_controls", "vm_exit_controls" }

\* The values a caller may request of an accessor: any set of its bits.
ControlValues(accessor) ==
  IF accessor = "processor_based_controls" THEN SUBSET ProcbasedBits ELSE SUBSET ControlBits

\* The getter of a control accessor, applied to the VMCS m.
read_controls(accessor, m) ==
  CASE accessor = "pin_based_controls" -> pin_based_controls(m)
    [] accessor = "processor_based_controls" -> processor_based_controls(m)
    [] accessor = "processor_based_controls2" -> processor_based_controls2(m)
    [] accessor = "vm_entry_controls" -> vm_entry_controls(m)
    [] accessor = "vm_exit_controls" -> vm_exit_controls(m)

\* The setter of a control accessor, applied to the VMCS m.
write_controls(accessor, m, controls) ==
  CASE accessor = "pin_based_controls" -> set_pin_based_controls(m, controls)
    [] accessor = "processor_based_controls" -> set_processor_based_controls(m, controls)
    [] accessor = "processor_based_controls2" -> set_processor_based_controls2(m, controls)
    [] accessor = "vm_entry_controls" -> set_vm_entry_controls(m, controls)
    [] accessor = "vm_exit_controls" -> set_vm_exit_controls(m, controls)

\* A handler calls the writer of a control accessor.
call_write_controls(accessor, controls) ==
  /\ ~halted
  /\ vmcs' = write_controls(accessor, vmcs, controls)
  /\ call' = Access(accessor, TRUE, << controls >>, << >>)
  /\ UNCHANGED << queue, exit_context_, vmx_procbased_ctls, vmx_ctls, bitmaps, halted >>

\* A handler calls the reader of a control accessor.
call_read_controls(accessor) ==
  /\ ~halted
  /\ call' = Access(accessor, FALSE, << >>, << read_controls(accessor, vmcs) >>)
  /\ UNCHANGED << queue, exit_context_, vmcs, vmx_procbased_ctls, vmx_ctls, bitmaps, halted >>

\* The VMCS before setup: every control field is clear.  The processor
\* supports the flexible bit of every control field, or of all but one.
InitControls ==
  /\ EngineIdle
  /\ vmx_procbased_ctls \in ProcbasedCapabilities
  /\ vmx_ctls \in [ ControlMsrs -> ControlCapabilities ]
  /\ BitmapsCleared
  /\ Cardinality({ msr \in ControlMsrs : vmx_ctls[msr] # SupportedControls })
       + (IF "interrupt_window_exiting" \in vmx_procbased_ctls.allowed1 THEN 0 ELSE 1) <= 1
  /\ vmcs = [ ctrl_pin_based_vm_execution_controls |-> {},
              ctrl_processor_based_vm_execution_controls |-> {},
              ctrl_secondary_processor_based_vm_execution_controls |-> {},
              ctrl_vmentry_controls |-> {},
              ctrl_vmexit_controls |-> {} ]
  /\ call = Access("init", FALSE, << >>, << >>)

NextControls ==
  \/ \E accessor \in ControlAccessors :
       \E controls \in ControlValues(accessor) : call_write_controls(accessor, controls)
  \/ \E accessor \in ControlAccessors : call_read_controls(accessor)

SpecControls == InitControls /\ [][NextControls]_vars

\* The capability MSR a control accessor adjusts with.
CapabilityOf(accessor) ==
  CASE accessor = "pin_based_controls" -> vmx_ctls["vmx_pinbased_ctls"]
    [] accessor = "processor_based_controls" -> vmx_procbased_ctls
    [] accessor = "processor_based_controls2" -> vmx_ctls["vmx_procbased_ctls2"]
    [] accessor = "vm_entry_controls" -> vmx_ctls["vmx_entry_ctls"]
    [] accessor = "vm_exit_controls" -> vmx_ctls["vmx_exit_ctls"]

\* C14: for each of the five control accessors, the read that follows a write
\* of the requested value v returns (v | allowed-0) & allowed-1 of the
\* accessor's capability MSR, for every v, and so differs from v whenever
\* v is not already adjusted; the write changes no other field.
C14_ControlsAdjusted ==
  [][ /\ ( call'.op \in ControlAccessors /\ call'.write ) =>
           /\ read_controls(call'.op, vmcs') =
                (call'.arg[1] \cup CapabilityOf(call'.op).allowed0)
                  \cap CapabilityOf(call'.op).allowed1
           /\ \A other \in ControlAccessors \ { call'.op } :
                read_controls(other, vmcs') = read_controls(other, vmcs)
      /\ ( /\ call'.op \in ControlAccessors /\ ~call'.write
           /\ call.op = call'.op /\ call.write ) =>
           /\ call'.ret[1] =
                (call.arg[1] \cup CapabilityOf(call.op).allowed0)
                  \cap CapabilityOf(call.op).allowed1
           /\ vmcs' = vmcs ]_vars

\* C14 witness: the VM-exit controls were requested with the unsupported bit
\* and without the always-1 bit, and the read returned the adjusted value.
C14_Witness ==
  /\ call.op = "vm_exit_controls"
  /\ ~call.write
  /\ call.ret = << { "flexible", "reserved1" } >>
  /\ vm_exit_controls(vmcs) = { "flexible", "reserved1" }
  /\ pin_based_controls(vmcs) = { "reserved1" }
  /\ vmx_ctls["vmx_pinbased_ctls"] # vmx_ctls["vmx_exit_ctls"]

(***************************************************************************)
(* The accessors of the guest state, the host state and the control fields *)
(* whose writers do not adjust.                                            *)
(***************************************************************************)
\* Accessor -> the vmwrite calls of its writer, in order: << field, member of
\* the argument >> ("value" for an argument that is written whole).
PassThroughWriters ==
  [
    vcpu_id |->
      << << "ctrl_virtual_processor_identifier", "value" >> >>,
    ept_pointer |->
      << << "ctrl_ept_pointer", "value" >> >>,
    vmcs_link_pointer |->
      << << "guest_vmcs_link_pointer", "value" >> >>,
    exception_bitmap |->
      << << "ctrl_exception_bitmap", "value" >> >>,
    pagefault_error_code_mask |->
      << << "ctrl_pagefault_error_code_mask", "value" >> >>,
    pagefault_error_code_match |->
      << << "ctrl_pagefault_error_code_match", "value" >> >>,
    cr0_guest_host_mask |->
      << << "ctrl_cr0_guest_host_mask", "value" >> >>,
    cr0_shadow |->
      << << "ctrl_cr0_read_shadow", "value" >> >>,
    cr4_guest_host_mask |->
      << << "ctrl_cr4_guest_host_mask", "value" >> >>,
    cr4_shadow |->
      << << "ctrl_cr4_read_shadow", "value" >> >>,
    entry_instruction_length |->
      << << "ctrl_vmentry_instruction_length", "value" >> >>,
    entry_interruption_info |->
      << << "ctrl_vmentry_interruption_info", "value" >> >>,
    entry_interruption_error_code |->
      << << "ctrl_vmentry_exception_error_code", "value" >> >>,
    guest_cr0 |->
      << << "guest_cr0", "value" >> >>,
    guest_cr3 |->
      << << "guest_cr3", "value" >> >>,
    guest_cr4 |->
      << << "guest_cr4", "value" >> >>,
    guest_dr7 |->
      << << "guest_dr7", "value" >> >>,
    guest_debugctl |->
      << << "guest_debugctl", "value" >> >>,
    guest_rsp |->
      << << "guest_rsp", "value" >> >>,
    guest_rip |->
      << << "guest_rip", "value" >> >>,
    guest_rflags |->
      << << "guest_rflags", "value" >> >>,
    guest_gdtr |->
      << << "guest_gdtr_base", "base_address" >>, << "guest_gdtr_limit", "limit" >> >>,
    guest_idtr |->
      << << "guest_idtr_base", "base_address" >>, << "guest_idtr_limit", "limit" >> >>,
    guest_cs |->
      << << "guest_cs_base", "base_address" >>, << "guest_cs_limit", "limit" >>, << "guest_cs_access_rights", "access" >>, << "guest_cs_selector", "selector" >> >>,
    guest_ds |->
      << << "guest_ds_base", "base_address" >>, << "guest_ds_limit", "limit" >>, << "guest_ds_access_rights", "access" >>, << "guest_ds_selector", "selector" >> >>,
    guest_es |->
      << << "guest_es_base", "base_address" >>, << "guest_es_limit", "limit" >>, << "guest_es_access_rights", "access" >>, << "guest_es_selector", "selector" >> >>,
    guest_fs |->
      << << "guest_fs_base", "base_address" >>, << "guest_fs_limit", "limit" >>, << "guest_fs_access_rights", "access" >>, << "guest_fs_selector", "selector" >> >>,
    guest_gs |->
      << << "guest_gs_base", "base_address" >>, << "guest_gs_limit", "limit" >>, << "guest_gs_access_rights", "access" >>, << "guest_gs_selector", "selector" >> >>,
    guest_ss |->
      << << "guest_ss_base", "base_address" >>, << "guest_ss_limit", "limit" >>, << "guest_ss_access_rights", "access" >>, << "guest_ss_selector", "selector" >> >>,
    guest_tr |->
      << << "guest_tr_base", "base_address" >>, << "guest_tr_limit", "limit" >>, << "guest_tr_access_rights", "access" >>, << "guest_tr_selector", "selector" >> >>,
    guest_ldtr |->
      << << "guest_ldtr_base", "base_address" >>, << "guest_ldtr_limit", "limit" >>, << "guest_ldtr_access_rights", "access" >>, << "guest_ldtr_selector", "selector" >> >>,
    guest_interruptibility_state |->
      << << "guest_interruptibility_state", "value" >> >>,
    host_cr0 |->
      << << "host_cr0", "value" >> >>,
    host_cr3 |->
      << << "host_cr3", "value" >> >>,
    host_cr4 |->
      << << "host_cr4", "value" >> >>,
    host_rsp |->
      << << "host_rsp", "value" >> >>,
    host_rip |->
      << << "host_rip", "value" >> >> ]

\* Accessor -> the vmread calls of its reader, in order: << field, member of
\* the result >> ("value" for a result that is read whole).
PassThroughReaders ==
  [
    vcpu_id |->
      << << "ctrl_virtual_processor_identifier", "value" >> >>,
    ept_pointer |->
      << << "ctrl_ept_pointer", "value" >> >>,
    vmcs_link_pointer |->
      << << "guest_vmcs_link_pointer", "value" >> >>,
    exception_bitmap |->
      << << "ctrl_exception_bitmap", "value" >> >>,
    pagefault_error_code_mask |->
      << << "ctrl_pagefault_error_code_mask", "value" >> >>,
    pagefault_error_code_match |->
      << << "ctrl_pagefault_error_code_match", "value" >> >>,
    cr0_guest_host_mask |->
      << << "ctrl_cr0_guest_host_mask", "value" >> >>,
    cr0_shadow |->
      << << "ctrl_cr0_read_shadow", "value" >> >>,
    cr4_guest_host_mask |->
      << << "ctrl_cr4_guest_host_mask", "value" >> >>,
    cr4_shadow |->
      << << "ctrl_cr4_read_shadow", "value" >> >>,
    entry_instruction_length |->
      << << "ctrl_vmentry_instruction_length", "value" >> >>,
    entry_interruption_info |->
      << << "ctrl_vmentry_interruption_info", "value" >> >>,
    entry_interruption_error_code |->
      << << "ctrl_vmentry_exception_error_code", "value" >> >>,
    guest_cr0 |->
      << << "guest_cr0", "value" >> >>,
    guest_cr3 |->
      << << "guest_cr3", "value" >> >>,
    guest_cr4 |->
      << << "guest_cr4", "value" >> >>,
    guest_dr7 |->
      << << "guest_dr7", "value" >> >>,
    guest_debugctl |->
      << << "guest_debugctl", "value" >> >>,
    guest_rsp |->
      << << "guest_rsp", "value" >> >>,
    guest_rip |->
      << << "guest_rip", "value" >> >>,
    guest_rflags |->
      << << "guest_rflags", "value" >> >>,
    guest_gdtr |->
      << << "guest_gdtr_base", "base_address" >>, << "guest_gdtr_limit", "limit" >> >>,
    guest_idtr |->
      << << "guest_idtr_base", "base_address" >>, << "guest_idtr_limit", "limit" >> >>,
    guest_cs |->
      << << "guest_cs_base", "base_address" >>, << "guest_cs_limit", "limit" >>, << "guest_cs_access_rights", "access" >>, << "guest_cs_selector", "selector" >> >>,
    guest_ds |->
      << << "guest_ds_base", "base_address" >>, << "guest_ds_limit", "limit" >>, << "guest_ds_access_rights", "access" >>, << "guest_ds_selector", "selector" >> >>,
    guest_es |->
      << << "guest_es_base", "base_address" >>, << "guest_es_limit", "limit" >>, << "guest_es_access_rights", "access" >>, << "guest_es_selector", "selector" >> >>,
    guest_fs |->
      << << "guest_fs_base", "base_address" >>, << "guest_fs_limit", "limit" >>, << "guest_fs_access_rights", "access" >>, << "guest_fs_selector", "selector" >> >>,
    guest_gs |->
      << << "guest_gs_base", "base_address" >>, << "guest_gs_limit", "limit" >>, << "guest_gs_access_rights", "access" >>, << "guest_gs_selector", "selector" >> >>,
    guest_ss |->
      << << "guest_ss_base", "base_address" >>, << "guest_ss_limit", "limit" >>, << "guest_ss_access_rights", "access" >>, << "guest_ss_selector", "selector" >> >>,
    guest_tr |->
      << << "guest_tr_base", "base_address" >>, << "guest_tr_limit", "limit" >>, << "guest_tr_access_rights", "access" >>, << "guest_tr_selector", "selector" >> >>,
    guest_ldtr |->
      << << "guest_ldtr_base", "base_address" >>, << "guest_ldtr_limit", "limit" >>, << "guest_ldtr_access_rights", "access" >>, << "guest_ldtr_selector", "selector" >> >>,
    guest_interruptibility_state |->
      << << "guest_interruptibility_state", "value" >> >>,
    host_cr0 |->
      << << "host_cr0", "value" >> >>,
    host_cr3 |->
      << << "host_cr3", "value" >> >>,
    host_cr4 |->
      << << "host_cr4", "value" >> >>,
    host_rsp |->
      << << "host_rsp", "value" >> >>,
    host_rip |->
      << << "host_rip", "value" >> >> ]

PassThroughAccessors == DOMAIN PassThroughWriters

\* Faulty variant: only the first vmwrite of the writer is made.
write_pass_through_first_only(accessor, m, v) ==
  LET writes == PassThroughWriters[accessor]
  IN  [ m EXCEPT ![writes[1][1]] = v[writes[1][2]] ]

\* The writer of a pass-through accessor: one vmwrite per entry.
write_pass_through(accessor, m, v) ==
  LET writes == PassThroughWriters[accessor]
  IN  [ f \in DOMAIN m |->
          IF \E i \in DOMAIN writes : writes[i][1] = f
          THEN v[writes[CHOOSE i \in DOMAIN writes : writes[i][1] = f][2]]
          ELSE m[f] ]

\* The reader of a pass-through accessor: one vmread per entry.
read_pass_through(accessor, m) ==
  LET reads == PassThroughReaders[accessor]
  IN  [ c \in { reads[i][2] : i \in DOMAIN reads } |->
          vmread(m, reads[CHOOSE i \in DOMAIN reads : reads[i][2] = c][1]) ]

\* Faulty variant: the limit is left at 0 instead of being set to 0xffff.
host_gdtr_zero_limit(m) ==
  [ base_address |-> vmread(m, "host_gdtr_base"), limit |-> 0 ]

\* vcpu.inl:1024-1030: the limit is not read from the VMCS.
host_gdtr(m) ==
  [ base_address |-> vmread(m, "host_gdtr_base"), limit |-> 65535 ]

\* vcpu.inl:1032-1035.
set_host_gdtr(m, gdtr) == vmwrite(m, "host_gdtr_base", gdtr.base_address)

\* vcpu.inl:1037-1043.
host_idtr(m) ==
  [ base_address |-> vmread(m, "host_idtr_base"), limit |-> 65535 ]

\* vcpu.inl:1045-1048.
set_host_idtr(m, idtr) == vmwrite(m, "host_idtr_base", idtr.base_address)

\* segment_selector_t::index: bits 3..15 of the selector.
selector_index(selector) == (selector \div 8) % 8192

\* Faulty variant: the selector is stored with its RPL and TI bits.
host_selector_raw(selector) == selector

\* The value the host segment writers store: selector.index * 8.
host_selector(selector) == selector_index(selector) * 8

\* vcpu.inl:1065-1070: the members not read keep what the local variable held.
host_cs(m, uninitialized) ==
  [ uninitialized EXCEPT
      !.selector = vmread(m, "host_cs_selector") ]

\* vcpu.inl:1072-1075.
set_host_cs(m, cs) ==
  vmwrite(m, "host_cs_selector", host_selector(cs.selector))

\* vcpu.inl:1077-1082: the members not read keep what the local variable held.
host_ds(m, uninitialized) ==
  [ uninitialized EXCEPT
      !.selector = vmread(m, "host_ds_selector") ]

\* vcpu.inl:1084-1087.
set_host_ds(m, ds) ==
  vmwrite(m, "host_ds_selector", host_selector(ds.selector))

\* vcpu.inl:1089-1094: the members not read keep what the local variable held.
host_es(m, uninitialized) ==
  [ uninitialized EXCEPT
      !.selector = vmread(m, "host_es_selector") ]

\* vcpu.inl:1096-1099.
set_host_es(m, es) ==
  vmwrite(m, "host_es_selector", host_selector(es.selector))

\* vcpu.inl:1101-1107: the members not read keep what the local variable held.
host_fs(m, uninitialized) ==
  [ uninitialized EXCEPT
      !.selector = vmread(m, "host_fs_selector"),
      !.base_address = vmread(m, "host_fs_base") ]

\* vcpu.inl:1109-1113.
set_host_fs(m, fs) ==
  vmwrite(vmwrite(m, "host_fs_selector", host_selector(fs.selector)),
          "host_fs_base", fs.base_address)

\* vcpu.inl:1115-1121: the members not read keep what the local variable held.
host_gs(m, uninitialized) ==
  [ uninitialized EXCEPT
      !.selector = vmread(m, "host_gs_selector"),
      !.base_address = vmread(m, "host_gs_base") ]

\* vcpu.inl:1123-1127.
set_host_gs(m, gs) ==
  vmwrite(vmwrite(m, "host_gs_selector", host_selector(gs.selector)),
          "host_gs_base", gs.base_address)

\* vcpu.inl:1129-1134: the members not read keep what the local variable held.
host_ss(m, uninitialized) ==
  [ uninitialized EXCEPT
      !.selector = vmread(m, "host_ss_selector") ]

\* vcpu.inl:1136-1139.
set_host_ss(m, ss) ==
  vmwrite(m, "host_ss_selector", host_selector(ss.selector))

\* vcpu.inl:1141-1147: the members not read keep what the local variable held.
host_tr(m, uninitialized) ==
  [ uninitialized EXCEPT
      !.selector = vmread(m, "host_tr_selector"),
      !.base_address = vmread(m, "host_tr_base") ]

\* vcpu.inl:1149-1153.
set_host_tr(m, tr) ==
  vmwrite(vmwrite(m, "host_tr_selector", host_selector(tr.selector)),
          "host_tr_base", tr.base_address)

HostTableAccessors == { "host_gdtr", "host_idtr" }

HostSegmentAccessors ==
  { "host_cs", "host_ds", "host_es", "host_fs", "host_gs", "host_ss", "host_tr" }

\* Every accessor pair of the surface whose writer does not adjust.
StateAccessors == PassThroughAccessors \cup HostTableAccessors \cup HostSegmentAccessors

\* The reader of an accessor, applied to the VMCS m.
read_accessor(accessor, m, uninitialized) ==
  CASE accessor = "host_gdtr" -> host_gdtr(m)
    [] accessor = "host_idtr" -> host_idtr(m)
    [] accessor = "host_cs" -> host_cs(m, uninitialized)
    [] accessor = "host_ds" -> host_ds(m, uninitialized)
    [] accessor = "host_es" -> host_es(m, uninitialized)
    [] accessor = "host_fs" -> host_fs(m, uninitialized)
    [] accessor = "host_gs" -> host_gs(m, uninitialized)
    [] accessor = "host_ss" -> host_ss(m, uninitialized)
    [] accessor = "host_tr" -> host_tr(m, uninitialized)
    [] OTHER -> read_pass_through(accessor, m)

\* The writer of an accessor, applied to the VMCS m.
write_accessor(accessor, m, v) ==
  CASE accessor = "host_gdtr" -> set_host_gdtr(m, v)
    [] accessor = "host_idtr" -> set_host_idtr(m, v)
    [] accessor = "host_cs" -> set_host_cs(m, v)
    [] accessor = "host_ds" -> set_host_ds(m, v)
    [] accessor = "host_es" -> set_host_es(m, v)
    [] accessor = "host_fs" -> set_host_fs(m, v)
    [] accessor = "host_gs" -> set_host_gs(m, v)
    [] accessor = "host_ss" -> set_host_ss(m, v)
    [] accessor = "host_tr" -> set_host_tr(m, v)
    [] OTHER -> write_pass_through(accessor, m, v)

\* The fields the host accessors touch.
HostFields ==
  { "host_gdtr_base", "host_idtr_base",
    "host_cs_selector", "host_ds_selector", "host_es_selector", "host_fs_selector",
    "host_gs_selector", "host_ss_selector", "host_tr_selector",
    "host_fs_base", "host_gs_base", "host_tr_base" }

StateFields ==
  HostFields \cup
  UNION { { PassThroughWriters[a][i][1] : i \in DOMAIN PassThroughWriters[a] } :
            a \in PassThroughAccessors }

\* 16-bit selectors: null, index 1 with RPL 0 and 3, with TI, and the largest
\* index with and without RPL and TI.
Selectors == { 0, 8, 11, 12, 65528, 65535 }

\* Two values for each member of the accessors' arguments; no two members
\* take the same value, and none takes the 0 that setup leaves in the fields.
MemberValues ==
  << [ value |-> 1, base_address |-> 4096, limit |-> 1023, access |-> 147, selector |-> 11 ],
     [ value |-> 2, base_address |-> 8192, limit |-> 2047, access |-> 155, selector |-> 43 ] >>

\* segment_t with the members of row k of MemberValues and the given selector.
SegmentValue(k, selector) ==
  [ base_address |-> MemberValues[k].base_address, limit |-> MemberValues[k].limit,
    access |-> MemberValues[k].access, selector |-> selector ]

\* segment_t values passed to the host segment writers: every selector with
\* one value of the other members, and two selectors with another.
HostSegmentValues ==
  { SegmentValue(1, selector) : selector \in Selectors } \cup
  { SegmentValue(2, selector) : selector \in { 11, 65535 } }

\* What the local variable of a reader may hold before the reads.
UninitializedValues ==
  { SegmentValue(k, MemberValues[k].selector) : k \in 1 .. 2 }

\* The arguments a caller may pass to the writer of an accessor.
AccessorValues(accessor) ==
  CASE accessor \in HostTableAccessors ->
         { [ base_address |-> MemberValues[k].base_address, limit |-> MemberValues[k].limit ] :
             k \in 1 .. 2 }
    [] accessor \in HostSegmentAccessors -> HostSegmentValues
    [] OTHER ->
         LET members == { PassThroughWriters[accessor][i][2] :
                            i \in DOMAIN PassThroughWriters[accessor] }
         IN  { [ c \in members |-> MemberValues[k][c] ] : k \in 1 .. 2 }

\* The VMCS before setup: every field is 0.
ClearedState == [ f \in StateFields |-> 0 ]

\* What an unset segment_t local holds when nothing is assumed about it.
ZeroSegment == [ base_address |-> 0, limit |-> 0, access |-> 0, selector |-> 0 ]

\* Accessor -> the fields its writer stores to.
WrittenFields ==
  [ a \in StateAccessors |->
      { f \in StateFields :
          \E v \in AccessorValues(a) : write_accessor(a, ClearedState, v)[f] # 0 } ]

\* The accessors whose fields no longer hold what setup left there.
WrittenAccessors ==
  LET dirty == { f \in StateFields : vmcs[f] # 0 }
  IN  { a \in StateAccessors : WrittenFields[a] \cap dirty # {} }

\* A handler calls the writer of an accessor.
call_write_accessor(accessor, v) ==
  /\ ~halted
  /\ vmcs' = write_accessor(accessor, vmcs, v)
  /\ call' = Access(accessor, TRUE, << v >>, << >>)
  /\ UNCHANGED << queue, exit_context_, vmx_procbased_ctls, vmx_ctls, bitmaps, halted >>

\* A handler calls the reader of an accessor; uninitialized is what the
\* reader's local variable held before the reads.
call_read_accessor(accessor, uninitialized) ==
  /\ ~halted
  /\ call' = Access(accessor, FALSE, << >>,
                  << read_accessor(accessor, vmcs, uninitialized) >>)
  /\ UNCHANGED << queue, exit_context_, vmcs, vmx_procbased_ctls, vmx_ctls, bitmaps, halted >>

InitState ==
  /\ EngineIdle
  /\ vmx_procbased_ctls \in ProcbasedCapabilities
  /\ vmx_ctls = [ msr \in ControlMsrs |-> SupportedControls ]
  /\ BitmapsCleared
  /\ vmcs = ClearedState
  /\ call = Access("init", FALSE, << >>, << >>)

\* Handlers write through at most MaxWrittenAccessors accessors, any number
\* of times, and read an accessor back after writing it.
NextState ==
  \/ \E accessor \in IF Cardinality(WrittenAccessors) < MaxWrittenAccessors
                      THEN StateAccessors
                      ELSE WrittenAccessors :
       \E v \in AccessorValues(accessor) : call_write_accessor(accessor, v)
  \/ \E accessor \in StateAccessors \cap { call.op } :
       /\ call.write
       /\ \E uninitialized \in IF accessor \in HostSegmentAccessors
                                THEN UninitializedValues
                                ELSE { ZeroSegment } :
            call_read_accessor(accessor, uninitialized)

SpecState == InitState /\ [][NextState]_vars

\* The step is a call of the writer of accessor.
Wrote(accessor) == call'.op = accessor /\ call'.write

\* The step is a call of the reader of an accessor that follows a call of
\* its writer.
ReadBack == ~call'.write /\ call.write /\ call'.op = call.op

\* C15 (as claimed): for every accessor pair of the guest state, the host
\* state and the control fields whose writers do not adjust, the read that
\* follows a write of v returns v.
C15_AsClaimed ==
  [][ ( ReadBack /\ call'.op \in StateAccessors ) => call'.ret = call.arg ]_vars

\* C15 (amended): for every accessor pair of the guest state, of the host
\* CR0, CR3, CR4, RSP and RIP, and of the control fields whose writers do not
\* adjust, the read that follows a write of v returns v, whatever the reader's
\* local variable held before, and the write changes what no other accessor
\* reads.  (The host GDTR, IDTR and segment accessors do not pass values
\* through: see C16 and C17.)
C15_PassThrough ==
  [][ /\ ( ReadBack /\ call'.op \in PassThroughAccessors ) =>
           /\ call'.ret = call.arg
           /\ vmcs' = vmcs
      /\ ( call'.write /\ call'.op \in PassThroughAccessors ) =>
           /\ read_accessor(call'.op, vmcs', ZeroSegment) = call'.arg[1]
           /\ \A other \in PassThroughAccessors \ { call'.op } :
                \A i \in DOMAIN PassThroughReaders[other] :
                  vmread(vmcs', PassThroughReaders[other][i][1]) =
                    vmread(vmcs, PassThroughReaders[other][i][1])
           /\ \A f \in HostFields : vmread(vmcs', f) = vmread(vmcs, f) ]_vars

\* C15 witness: guest_ss was written with four non-zero members and the read
\* returned them.
C15_Witness ==
  /\ call.op = "guest_ss"
  /\ ~call.write
  /\ call.ret =
       << [ base_address |-> 8192, limit |-> 2047, access |-> 155, selector |-> 43 ] >>
  /\ vmread(vmcs, "guest_ss_limit") = 2047

\* C16: host_gdtr() and host_idtr() return the limit 0xffff in every state,
\* whatever limits were passed to the writers; the writers store the base
\* address only, and the read that follows a write returns the base written.
C16_HostTableLimit ==
  /\ [](host_gdtr(vmcs).limit = 65535 /\ host_idtr(vmcs).limit = 65535)
  /\ [][ /\ Wrote("host_gdtr") =>
              /\ vmcs' = [ vmcs EXCEPT !["host_gdtr_base"] = call'.arg[1].base_address ]
              /\ host_gdtr(vmcs') =
                   [ base_address |-> call'.arg[1].base_address, limit |-> 65535 ]
         /\ Wrote("host_idtr") =>
              /\ vmcs' = [ vmcs EXCEPT !["host_idtr_base"] = call'.arg[1].base_address ]
              /\ host_idtr(vmcs') =
                   [ base_address |-> call'.arg[1].base_address, limit |-> 65535 ]
         /\ ( ReadBack /\ call'.op \in HostTableAccessors ) =>
              /\ call'.ret[1].limit = 65535
              /\ call'.ret[1].base_address = call.arg[1].base_address ]_vars

\* C16 witness: host_gdtr was read after a write; it returned the base
\* written and the limit 0xffff, which no write passes.
C16_Witness ==
  /\ call.op = "host_gdtr"
  /\ ~call.write
  /\ call.ret = << [ base_address |-> 4096, limit |-> 65535 ] >>
  /\ \A v \in AccessorValues("host_gdtr") : v.limit # 65535

\* The VMCS field each host segment writer stores the selector in.
HostSelectorField ==
  [ host_cs |-> "host_cs_selector", host_ds |-> "host_ds_selector",
    host_es |-> "host_es_selector", host_fs |-> "host_fs_selector",
    host_gs |-> "host_gs_selector", host_ss |-> "host_ss_selector",
    host_tr |-> "host_tr_selector" ]

guest_es_selector == 2048

guest_es_limit == 18432

guest_es_access_rights == 18452

guest_es_base == 26630

\* context_t::seg_min and seg_max: ES is 0 and TR is 7.
seg_min == 0

seg_max == 7

\* index << 1.
ShiftLeft1(index) == index * 2

\* vcpu.inl:866-871.
guest_segment_base_address(m, index) == vmread(m, guest_es_base + ShiftLeft1(index))

\* vcpu.inl:873-876.
set_guest_segment_base_address(m, index, base_address) ==
  vmwrite(m, guest_es_base + ShiftLeft1(index), base_address)

\* vcpu.inl:878-883.
guest_segment_limit(m, index) == vmread(m, guest_es_limit + ShiftLeft1(index))

\* vcpu.inl:885-888.
set_guest_segment_limit(m, index, limit) ==
  vmwrite(m, guest_es_limit + ShiftLeft1(index), limit)

\* vcpu.inl:890-895.
guest_segment_access(m, index) == vmread(m, guest_es_access_rights + ShiftLeft1(index))

\* vcpu.inl:897-900.
set_guest_segment_access(m, index, access_rights) ==
  vmwrite(m, guest_es_access_rights + ShiftLeft1(index), access_rights)

\* vcpu.inl:902-907.
guest_segment_selector(m, index) == vmread(m, guest_es_selector + ShiftLeft1(index))

\* Faulty variant: the index is not scaled to the stride of the fields.
set_guest_segment_selector_unscaled(m, index, selector) ==
  vmwrite(m, guest_es_selector + (IF index % 2 = 0 THEN index ELSE index - 1), selector)

\* vcpu.inl:909-912.
set_guest_segment_selector(m, index, selector) ==
  vmwrite(m, guest_es_selector + ShiftLeft1(index), selector)

\* The hvpp_assert at vcpu.inl:916 and 928.
guest_segment_index_valid(index) == index >= seg_min /\ index <= seg_max

\* vcpu.inl:918-923: the segment_t the reader builds.
guest_segment(m, index) ==
  [ base_address |-> guest_segment_base_address(m, index),
    limit |-> guest_segment_limit(m, index),
    access |-> guest_segment_access(m, index),
    selector |-> guest_segment_selector(m, index) ]

\* vcpu.inl:930-933: the four writes of the writer.
set_guest_segment(m, index, seg) ==
  set_guest_segment_selector(
    set_guest_segment_access(
      set_guest_segment_limit(
        set_guest_segment_base_address(m, index, seg.base_address),
        index, seg.limit),
      index, seg.access),
    index, seg.selector)

\* vcpu.inl:926-934, called by a handler.
call_set_guest_segment(index, seg) ==
  /\ ~halted
  /\ IF guest_segment_index_valid(index)
     THEN /\ vmcs' = set_guest_segment(vmcs, index, seg)
          /\ call' = Access("guest_segment", TRUE, << index, seg >>, << >>)
          /\ UNCHANGED << queue, exit_context_, vmx_procbased_ctls, vmx_ctls, bitmaps, halted >>
     ELSE /\ halted' = TRUE
          /\ call' = Access("guest_segment", TRUE, << index, seg >>, << "assert" >>)
          /\ UNCHANGED << queue, exit_context_, vmcs, vmx_procbased_ctls, vmx_ctls, bitmaps >>

\* vcpu.inl:914-924, called by a handler.
call_guest_segment(index) ==
  /\ ~halted
  /\ IF guest_segment_index_valid(index)
     THEN /\ call' = Access("guest_segment", FALSE, << index >>,
                            << guest_segment(vmcs, index) >>)
          /\ UNCHANGED << queue, exit_context_, vmcs, vmx_procbased_ctls, vmx_ctls, bitmaps, halted >>
     ELSE /\ halted' = TRUE
          /\ call' = Access("guest_segment", FALSE, << index >>, << "assert" >>)
          /\ UNCHANGED << queue, exit_context_, vmcs, vmx_procbased_ctls, vmx_ctls, bitmaps >>

\* The indices handlers pass: every segment, and one index on either side.
SegmentIndices == (seg_min - 1) .. (seg_max + 1)

\* The encodings of the fields of the eight segment registers.
SegmentFields ==
  { es + ShiftLeft1(index) :
      es \in { guest_es_selector, guest_es_limit, guest_es_access_rights, guest_es_base },
      index \in seg_min .. seg_max }

InitSegments ==
  /\ EngineIdle
  /\ vmx_procbased_ctls \in ProcbasedCapabilities
  /\ vmx_ctls = [ msr \in ControlMsrs |-> SupportedControls ]
  /\ BitmapsCleared
  /\ vmcs = [ f \in SegmentFields |-> 0 ]
  /\ call = Access("init", FALSE, << >>, << >>)

\* The segments whose fields no longer hold what setup left there.
WrittenSegments ==
  { index \in seg_min .. seg_max : guest_segment(vmcs, index) # ZeroSegment }

\* Handlers write at most MaxWrittenAccessors + 1 segments, any number of
\* times, and read any segment at any time.
NextSegments ==
  \/ \E index \in IF Cardinality(WrittenSegments) <= MaxWrittenAccessors
                   THEN SegmentIndices
                   ELSE WrittenSegments :
       \E seg \in UninitializedValues : call_set_guest_segment(index, seg)
  \/ \E index \in SegmentIndices : call_guest_segment(index)

SpecSegments == InitSegments /\ [][NextSegments]_vars

\* C18: for every index in seg_min .. seg_max and every segment value s,
\* guest_segment(index, s) stores the four members of s in the fields at the
\* ES field encodings plus 2 * index and in no other field, so that
\* guest_segment(index) returns s, in the same step and in every later read
\* until the segment is written again, and what guest_segment returns for
\* every other index is unchanged.
C18_GuestSegmentRoundTrip ==
  [][ /\ ( call'.op = "guest_segment" /\ call'.write /\ ~halted' ) =>
           LET index == call'.arg[1]
               s == call'.arg[2]
           IN  /\ index \in seg_min .. seg_max
               /\ guest_segment(vmcs', index) = s
               /\ vmcs' = [ vmcs EXCEPT ![guest_es_base + 2 * index] = s.base_address,
                                        ![guest_es_limit + 2 * index] = s.limit,
                                        ![guest_es_access_rights + 2 * index] = s.access,
                                        ![guest_es_selector + 2 * index] = s.selector ]
               /\ \A other \in (seg_min .. seg_max) \ { index } :
                    guest_segment(vmcs', other) = guest_segment(vmcs, other)
      /\ ( call'.op = "guest_segment" /\ ~call'.write /\ ~halted' ) =>
           /\ vmcs' = vmcs
           /\ call'.ret[1] = guest_segment(vmcs, call'.arg[1])
           /\ ( call.op = "guest_segment" /\ call.write /\ call.arg[1] = call'.arg[1] ) =>
                call'.ret[1] = call.arg[2] ]_vars

\* C18 witness: TR (index 7) was written and read back while CS (index 1)
\* held another value.
C18_Witness ==
  /\ call.op = "guest_segment"
  /\ ~call.write
  /\ call.arg = << 7 >>
  /\ call.ret = << SegmentValue(2, 43) >>
  /\ guest_segment(vmcs, 1) = SegmentValue(1, 11)
  /\ vmread(vmcs, guest_es_selector + 14) = 43

(***************************************************************************)
(* IDT-vectoring reflection: a VM exit interrupts the delivery of an       *)
(* event, the handler reads the interrupted event with idt_vectoring_info  *)
(* and injects it again with interrupt_inject_force.                       *)
(***************************************************************************)
\* vcpu.inl:544-549.
exit_idt_vectoring_info(m) == vmread(m, "vmexit_idt_vectoring_info")

\* vcpu.inl:551-556.
exit_idt_vectoring_error_code(m) == vmread(m, "vmexit_idt_vectoring_error_code")

\* Faulty variant: the error code is never read from the VMCS.
idt_vectoring_info_no_error_code(m, uninitialized) ==
  LET info_ == exit_idt_vectoring_info(m)
  IN  [ info_ |-> info_,
        error_code_ |-> uninitialized.error_code_,
        rip_adjust_ |-> IF info_.valid = 1
                        THEN ToInt32(exit_instruction_length(m))
                        ELSE uninitialized.rip_adjust_ ]

\* vcpu.inl:21-37; uninitialized is what the default-constructed result holds
\* in the members the function does not assign.
idt_vectoring_info(m, uninitialized) ==
  LET info_ == exit_idt_vectoring_info(m)
  IN  [ info_ |-> info_,
        error_code_ |-> IF info_.valid = 1 /\ info_.error_code_valid = 1
                        THEN exit_idt_vectoring_error_code(m)
                        ELSE uninitialized.error_code_,
        rip_adjust_ |-> IF info_.valid = 1
                        THEN ToInt32(exit_instruction_length(m))
                        ELSE uninitialized.rip_adjust_ ]

\* vcpu.inl:21-37, called by a handler.
call_idt_vectoring_info(uninitialized) ==
  /\ ~halted
  /\ call' = Access("idt_vectoring_info", FALSE, << >>,
                    << idt_vectoring_info(vmcs, uninitialized) >>)
  /\ UNCHANGED << queue, exit_context_, vmcs, vmx_procbased_ctls, vmx_ctls, bitmaps, halted >>

\* A VM exit taken while the CPU was delivering an event: the CPU stores the
\* IDT-vectoring information, its error code and the exit instruction length.
vm_exit_idt_vectoring(info, error_code, length) ==
  /\ ~halted
  /\ vmcs' = vmwrite(vmwrite(vmwrite(vmcs,
                "vmexit_idt_vectoring_info", info),
                "vmexit_idt_vectoring_error_code", error_code),
                "vmexit_instruction_length", length)
  /\ call' = Access("vm_exit", FALSE, << >>, << >>)
  /\ UNCHANGED << queue, exit_context_, vmx_procbased_ctls, vmx_ctls, bitmaps, halted >>

\* The events whose delivery an exit can interrupt: #PF and #GP with an error
\* code, #UD without, int3, a software interrupt, an external interrupt, an NMI.
VectoredEvents ==
  { [ type |-> "hardware_exception", vector |-> page_fault, error_code_valid |-> 1 ],
    [ type |-> "hardware_exception", vector |-> general_protection, error_code_valid |-> 1 ],
    [ type |-> "hardware_exception", vector |-> 6, error_code_valid |-> 0 ],
    [ type |-> "software_exception", vector |-> 3, error_code_valid |-> 0 ],
    [ type |-> "software", vector |-> 128, error_code_valid |-> 0 ],
    [ type |-> "external", vector |-> 48, error_code_valid |-> 0 ],
    [ type |-> "nmi", vector |-> 2, error_code_valid |-> 0 ] }

\* IDT-vectoring information fields: each event, valid or not.
IdtVectoringInfos ==
  { [ valid |-> valid, type |-> e.type, vector |-> e.vector,
      error_code_valid |-> e.error_code_valid ] : valid \in 0 .. 1, e \in VectoredEvents }

\* Error codes the CPU stores with the IDT-vectoring information.
IdtVectoringErrorCodes == { 0, 2 }

\* What a default-constructed interrupt_info_t may hold in error_code_ and
\* rip_adjust_.
UninitializedInterrupts ==
  { [ error_code_ |-> 0, rip_adjust_ |-> -1 ], [ error_code_ |-> 9, rip_adjust_ |-> 0 ] }

InitVectoring ==
  /\ EngineIdle
  /\ vmx_procbased_ctls \in ProcbasedCapabilities
  /\ vmx_ctls = [ msr \in ControlMsrs |-> SupportedControls ]
  /\ BitmapsCleared
  /\ vmcs = [ vmexit_idt_vectoring_info |-> NoInterrupt.info_,
              vmexit_idt_vectoring_error_code |-> 0,
              vmexit_instruction_length |-> 0,
              ctrl_vmentry_interruption_info |-> NoInterrupt.info_,
              ctrl_vmentry_exception_error_code |-> 0,
              ctrl_vmentry_instruction_length |-> 0 ]
  /\ call = Access("init", FALSE, << >>, << >>)

\* The handler injects the record idt_vectoring_info has just returned.
NextVectoring ==
  \/ \E info \in IdtVectoringInfos, error_code \in IdtVectoringErrorCodes,
        length \in ExitInstructionLengths :
       vm_exit_idt_vectoring(info, error_code, length)
  \/ \E uninitialized \in UninitializedInterrupts : call_idt_vectoring_info(uninitialized)
  \/ /\ call.op = "idt_vectoring_info"
     /\ call_interrupt_inject_force(call.ret[1])

SpecVectoring == InitVectoring /\ [][NextVectoring]_vars

Limb == 65536

Limbs == 4

\* VMCS encodings of the two exit-information fields read here.
vmexit_instruction_info == 17422

vmexit_qualification == 25600

Zero64 == << 0, 0, 0, 0 >>

RECURSIVE AddCarry(_, _, _, _)
\* Limbs k..Limbs of a + b + carry, the carry out of the last limb dropped.
AddCarry(a, b, k, carry) ==
  IF k > Limbs
  THEN << >>
  ELSE LET sum == a[k] + b[k] + carry
       IN  << sum % Limb >> \o AddCarry(a, b, k + 1, sum \div Limb)

\* uint64_t += uint64_t, vcpu.inl:250-252.
Add64(a, b) == AddCarry(a, b, 1, 0)

RECURSIVE And16(_, _, _)
\* Bitwise and of the low n bits of x and y.
And16(x, y, n) ==
  IF n = 0
  THEN 0
  ELSE ( (x % 2) * (y % 2) ) + 2 * And16(x \div 2, y \div 2, n - 1)

\* uint64_t &= uint64_t, vcpu.inl:253.
And64(a, b) == [ k \in 1 .. Limbs |-> And16(a[k], b[k], 16) ]

\* vmx::instruction_info_t::size_to_mask: 16-, 32- and 64-bit address sizes.
size_to_mask ==
  << << 65535, 0, 0, 0 >>, << 65535, 65535, 0, 0 >>, << 65535, 65535, 65535, 65535 >> >>

\* vcpu.inl:516-521.
exit_instruction_info(m) == vmread(m, vmexit_instruction_info)

\* vcpu.inl:565-570.
exit_qualification(m) == vmread(m, vmexit_qualification)

\* Faulty variant: the result is not cut to the address size.
exit_instruction_info_guest_va_unmasked(m, context) ==
  LET instruction_info == exit_instruction_info(m).common
      displacement == exit_qualification(m).displacement
      base == IF instruction_info.base_register_invalid = 0
              THEN context.gp_register[instruction_info.base_register]
              ELSE Zero64
      index == IF instruction_info.index_register_invalid = 0
               THEN context.gp_register[instruction_info.index_register]
               ELSE Zero64
      segment_base == guest_segment_base_address(m, instruction_info.segment_register)
  IN  Add64(Add64(Add64(segment_base, base), index), displacement)

\* vcpu.inl:233-256.
exit_instruction_info_guest_va(m, context) ==
  LET instruction_info == exit_instruction_info(m).common
      displacement == exit_qualification(m).displacement
      base == IF instruction_info.base_register_invalid = 0
              THEN context.gp_register[instruction_info.base_register]
              ELSE Zero64
      index == IF instruction_info.index_register_invalid = 0
               THEN context.gp_register[instruction_info.index_register]
               ELSE Zero64
      segment_base == guest_segment_base_address(m, instruction_info.segment_register)
      result == Add64(Add64(Add64(segment_base, base), index), displacement)
  IN  And64(result, size_to_mask[instruction_info.address_size + 1])

\* vcpu.inl:233-256, called by a handler.
call_exit_instruction_info_guest_va ==
  /\ ~halted
  /\ call.op # "exit_instruction_info_guest_va"
  /\ call' = Access("exit_instruction_info_guest_va", FALSE, << >>,
                    << exit_instruction_info_guest_va(vmcs, exit_context_) >>)
  /\ UNCHANGED << queue, exit_context_, vmcs, vmx_procbased_ctls, vmx_ctls, bitmaps, halted >>

\* Operand values: zero, one, and the all-ones values of 16, 32 and 64 bits,
\* so that carries cross one, two and all limbs.
Words ==
  { Zero64, << 1, 0, 0, 0 >>, << 65535, 0, 0, 0 >>, << 65535, 65535, 0, 0 >>,
    << 65535, 65535, 65535, 65535 >> }

\* Base and index register numbers of the operand.
RegisterPairs == { << 0, 1 >>, << 15, 3 >> }

\* Segment registers of the operand: ES and GS.
OperandSegments == { 0, 5 }

\* Instruction-information fields of a memory operand.
InstructionInfos ==
  { [ common |-> [ base_register |-> registers[1], index_register |-> registers[2],
                   segment_register |-> segment, address_size |-> address_size,
                   base_register_invalid |-> base_invalid,
                   index_register_invalid |-> index_invalid ] ] :
      registers \in RegisterPairs, segment \in OperandSegments,
      address_size \in 0 .. 2, base_invalid \in 0 .. 1, index_invalid \in 0 .. 1 }

\* The state at a VM exit of an instruction with a memory operand: the CPU
\* has stored the instruction information and the displacement, the guest's
\* registers are in the exit context and its segment base in the VMCS.
InitGuestVa ==
  /\ pending_interrupt_ = [ s \in Slots |-> NoInterrupt ]
  /\ pending_interrupt_first_ = 0
  /\ pending_interrupt_count_ = 0
  /\ halted = FALSE
  /\ vmx_procbased_ctls \in ProcbasedCapabilities
  /\ vmx_ctls = [ msr \in ControlMsrs |-> SupportedControls ]
  /\ BitmapsCleared
  /\ call = Access("init", FALSE, << >>, << >>)
  /\ \E info \in InstructionInfos, segment_base \in Words, base \in Words,
        index \in Words, displacement \in Words :
       /\ exit_context_ =
            [ rflags |-> [ interrupt_enable_flag |-> 1 ],
              gp_register |->
                [ r \in 0 .. 15 |->
                    IF r = info.common.base_register THEN base
                    ELSE IF r = info.common.index_register THEN index
                    ELSE Zero64 ] ]
       /\ vmcs =
            [ f \in SegmentFields \cup { vmexit_instruction_info, vmexit_qualification } |->
                IF f = vmexit_instruction_info THEN info
                ELSE IF f = vmexit_qualification THEN [ displacement |-> displacement ]
                ELSE IF f = guest_es_base + ShiftLeft1(info.common.segment_register)
                     THEN segment_base
                ELSE IF f \in { guest_es_base + ShiftLeft1(i) : i \in seg_min .. seg_max }
                     THEN Zero64
                ELSE 0 ]

NextGuestVa == call_exit_instruction_info_guest_va

SpecGuestVa == InitGuestVa /\ [][NextGuestVa]_vars

\* The four operands of the address as the claim names them.
OperandsOf(m, context) ==
  LET info == m[vmexit_instruction_info].common
  IN  << m[guest_es_base + 2 * info.segment_register],
         IF info.base_register_invalid = 1 THEN Zero64
         ELSE context.gp_register[info.base_register],
         IF info.index_register_invalid = 1 THEN Zero64
         ELSE context.gp_register[info.index_register],
         m[vmexit_qualification].displacement >>

RECURSIVE ColumnCarry(_, _)
\* Carry into limb k of the sum of the four operands, added column by column.
ColumnCarry(operands, k) ==
  IF k = 1
  THEN 0
  ELSE ( operands[1][k - 1] + operands[2][k - 1] + operands[3][k - 1]
         + operands[4][k - 1] + ColumnCarry(operands, k - 1) ) \div Limb

\* Limb k of the sum of the four operands modulo 2^64.
ColumnSum(operands, k) ==
  ( operands[1][k] + operands[2][k] + operands[3][k] + operands[4][k]
    + ColumnCarry(operands, k) ) % Limb

\* Number of limbs of a 16-, 32- and 64-bit address.
AddressLimbs == << 1, 2, 4 >>

\* C20: exit_instruction_info_guest_va returns the sum modulo 2^64 of the
\* segment base, the base register (0 if invalid), the index register (0 if
\* invalid) and the displacement, cut to the 16, 32 or 64 low bits selected
\* by address_size.
C20_GuestVa ==
  call.op = "exit_instruction_info_guest_va" =>
    LET operands == OperandsOf(vmcs, exit_context_)
        width == AddressLimbs[vmcs[vmexit_instruction_info].common.address_size + 1]
    IN  call.ret[1] = [ k \in 1 .. Limbs |->
                          IF k <= width THEN ColumnSum(operands, k) ELSE 0 ]

\* C20 witness: 64-bit address size, segment base 2^64 - 1 plus base 0xFFFF
\* plus displacement 1 wraps to 0xFFFF; the index register holds a non-zero
\* value but is marked invalid.
C20_Witness ==
  /\ call.op = "exit_instruction_info_guest_va"
  /\ LET info == vmcs[vmexit_instruction_info].common
     IN  /\ info.address_size = 2
         /\ info.base_register_invalid = 0
         /\ info.index_register_invalid = 1
         /\ exit_context_.gp_register[info.index_register] = << 1, 0, 0, 0 >>
         /\ exit_context_.gp_register[info.base_register] = << 65535, 0, 0, 0 >>
         /\ vmcs[guest_es_base + 2 * info.segment_register] = << 65535, 65535, 65535, 65535 >>
  /\ vmcs[vmexit_qualification].displacement = << 1, 0, 0, 0 >>
  /\ call.ret = << << 65535, 0, 0, 0 >> >>

(***************************************************************************)
(* MSR and I/O bitmaps: the vCPU keeps its own copies and points the VMCS *)
(* at them.  A bitmap is the set of its set bits; an address is named by  *)
(* the object that lives there.                                           *)
(***************************************************************************)
\* pa_t::from_va: the physical address a virtual address is mapped at.
pa_t_from_va(va) == [ physical_address_of |-> va ]

\* Faulty variant: the VMCS is pointed at the caller's bitmap.
set_msr_bitmap_argument_address(m, msr_bitmap) ==
  [ msr_bitmap_ |-> msr_bitmap.data,
    vmcs |-> vmwrite(m, "ctrl_msr_bitmap_address", pa_t_from_va(msr_bitmap.va)) ]

\* vcpu.inl:375-379.
set_msr_bitmap(m, msr_bitmap) ==
  [ msr_bitmap_ |-> msr_bitmap.data,
    vmcs |-> vmwrite(m, "ctrl_msr_bitmap_address", pa_t_from_va("msr_bitmap_.data")) ]

\* vcpu.inl:386-391.
set_io_bitmap(m, io_bitmap) ==
  [ io_bitmap_ |-> [ a |-> io_bitmap.a, b |-> io_bitmap.b ],
    vmcs |-> vmwrite(vmwrite(m,
               "ctrl_io_bitmap_a_address", pa_t_from_va("io_bitmap_.a")),
               "ctrl_io_bitmap_b_address", pa_t_from_va("io_bitmap_.b")) ]

\* vcpu.inl:375-379, called by a handler.
call_set_msr_bitmap(msr_bitmap) ==
  /\ ~halted
  /\ LET r == set_msr_bitmap(vmcs, msr_bitmap)
     IN  /\ msr_bitmap_' = r.msr_bitmap_
         /\ vmcs' = r.vmcs
  /\ call' = Access("msr_bitmap", TRUE, << msr_bitmap >>, << >>)
  /\ UNCHANGED << queue, exit_context_, vmx_procbased_ctls, vmx_ctls, io_bitmap_, halted >>

\* vcpu.inl:370-373, called by a handler.
call_msr_bitmap ==
  /\ ~halted
  /\ call' = Access("msr_bitmap", FALSE, << >>, << msr_bitmap_ >>)
  /\ UNCHANGED << queue, exit_context_, vmcs, vmx_procbased_ctls, vmx_ctls, bitmaps, halted >>

\* vcpu.inl:386-391, called by a handler.
call_set_io_bitmap(io_bitmap) ==
  /\ ~halted
  /\ LET r == set_io_bitmap(vmcs, io_bitmap)
     IN  /\ io_bitmap_' = r.io_bitmap_
         /\ vmcs' = r.vmcs
  /\ call' = Access("io_bitmap", TRUE, << io_bitmap >>, << >>)
  /\ UNCHANGED << queue, exit_context_, vmx_procbased_ctls, vmx_ctls, msr_bitmap_, halted >>

\* vcpu.inl:381-384, called by a handler.
call_io_bitmap ==
  /\ ~halted
  /\ call' = Access("io_bitmap", FALSE, << >>, << io_bitmap_ >>)
  /\ UNCHANGED << queue, exit_context_, vmcs, vmx_procbased_ctls, vmx_ctls, bitmaps, halted >>

\* Bits of a bitmap page the model distinguishes.
BitmapBits == 0 .. 1

\* Bitmaps handlers pass: built in the handler's own storage, or the vCPU's
\* bitmap read back and passed in again.
MsrBitmapArguments ==
  { [ va |-> "handler.msr_bitmap.data", data |-> data ] : data \in SUBSET BitmapBits }
    \cup { [ va |-> "msr_bitmap_.data", data |-> msr_bitmap_ ] }

IoBitmapArguments ==
  { [ va |-> "handler.io_bitmap", a |-> a, b |-> b ] :
      a \in SUBSET BitmapBits, b \in SUBSET BitmapBits }

InitBitmaps ==
  /\ EngineIdle
  /\ vmx_procbased_ctls \in ProcbasedCapabilities
  /\ vmx_ctls = [ msr \in ControlMsrs |-> SupportedControls ]
  /\ BitmapsCleared
  /\ vmcs = [ ctrl_msr_bitmap_address |-> pa_t_from_va("nullptr"),
              ctrl_io_bitmap_a_address |-> pa_t_from_va("nullptr"),
              ctrl_io_bitmap_b_address |-> pa_t_from_va("nullptr") ]
  /\ call = Access("init", FALSE, << >>, << >>)

NextBitmaps ==
  \/ \E msr_bitmap \in MsrBitmapArguments : call_set_msr_bitmap(msr_bitmap)
  \/ call_msr_bitmap
  \/ \E io_bitmap \in IoBitmapArguments : call_set_io_bitmap(io_bitmap)
  \/ call_io_bitmap

SpecBitmaps == InitBitmaps /\ [][NextBitmaps]_vars

\* C21: after msr_bitmap(b) the owned MSR bitmap equals b and the VMCS
\* MSR-bitmap address is the physical address of the owned bitmap, not of
\* the argument; after io_bitmap(b) the owned I/O bitmap equals b and the
\* VMCS I/O-bitmap A and B addresses are the physical addresses of the owned
\* pages a and b.
C21_OwnedBitmaps ==
  [][ /\ ( call'.op = "msr_bitmap" /\ call'.write ) =>
           LET b == call'.arg[1]
           IN  /\ msr_bitmap_' = b.data
               /\ vmread(vmcs', "ctrl_msr_bitmap_address") =
                    [ physical_address_of |-> "msr_bitmap_.data" ]
               /\ b.va # "msr_bitmap_.data" =>
                    vmread(vmcs', "ctrl_msr_bitmap_address") #
                      [ physical_address_of |-> b.va ]
      /\ ( call'.op = "io_bitmap" /\ call'.write ) =>
           LET b == call'.arg[1]
           IN  /\ io_bitmap_'.a = b.a
               /\ io_bitmap_'.b = b.b
               /\ vmread(vmcs', "ctrl_io_bitmap_a_address") =
                    [ physical_address_of |-> "io_bitmap_.a" ]
               /\ vmread(vmcs', "ctrl_io_bitmap_b_address") =
                    [ physical_address_of |-> "io_bitmap_.b" ] ]_vars

\* C21 witness: both bitmaps were set from the handler's storage with
\* different contents for the I/O pages, and the reader returns the owned
\* I/O bitmap.
C21_Witness ==
  /\ call = Access("io_bitmap", FALSE, << >>, << [ a |-> { 0 }, b |-> { 1 } ] >>)
  /\ msr_bitmap_ = { 0, 1 }
  /\ vmread(vmcs, "ctrl_msr_bitmap_address") = [ physical_address_of |-> "msr_bitmap_.data" ]
  /\ vmread(vmcs, "ctrl_io_bitmap_a_address") = [ physical_address_of |-> "io_bitmap_.a" ]
  /\ vmread(vmcs, "ctrl_io_bitmap_b_address") = [ physical_address_of |-> "io_bitmap_.b" ]

(***************************************************************************)
(* Physical and virtual addresses (src/src/hvpp/hvpp/ia32/memory.h).       *)
(* value_ is a uint64_t: four 16-bit limbs, least significant first.       *)
(***************************************************************************)
\* memory.h:24.
page_shift == 12

RECURSIVE Pow2(_)
Pow2(n) == IF n = 0 THEN 1 ELSE 2 * Pow2(n - 1)

\* Limb k of a, 0 beyond the most significant limb and below the least.
LimbAt(a, k) == IF k \in 1 .. Limbs THEN a[k] ELSE 0

\* uint64_t >>= n for 0 <= n < 64.
ShiftRight64(a, n) ==
  LET q == n \div 16
      r == n % 16
  IN  [ k \in 1 .. Limbs |->
          ( LimbAt(a, k + q) \div Pow2(r) )
          + ( LimbAt(a, k + q + 1) % Pow2(r) ) * Pow2(16 - r) ]

\* uint64_t << n for 0 <= n < 64, the bits shifted out of bit 63 dropped.
ShiftLeft64(a, n) ==
  LET q == n \div 16
      r == n % 16
  IN  [ k \in 1 .. Limbs |->
          ( LimbAt(a, k - q) % Pow2(16 - r) ) * Pow2(r)
          + ( LimbAt(a, k - q - 1) \div Pow2(16 - r) ) ]

\* static_cast<int>(uint64_t): the low 32 bits as a two's complement int.
static_cast_int(a) ==
  IF a[2] < 32768 THEN a[1] + a[2] * Limb ELSE a[1] + ( a[2] - Limb ) * Limb

\* (1 << 9) - 1 converted to uint64_t, memory.h:107,160.
IndexMask == << Pow2(9) - 1, 0, 0, 0 >>

\* Faulty variant: the page offset is not shifted out.
pa_t_index_no_page_shift(value_, level) ==
  static_cast_int(And64(ShiftRight64(value_, level * 9), IndexMask))

\* memory.h:103-110.
pa_t_index(value_, level) ==
  LET shifted == ShiftRight64(value_, page_shift + level * 9)
      result == And64(shifted, IndexMask)
  IN  static_cast_int(result)

\* memory.h:156-163.
va_t_index(value_, level) ==
  LET shifted == ShiftRight64(value_, page_shift + level * 9)
      result == And64(shifted, IndexMask)
  IN  static_cast_int(result)

\* memory.h:100.
pa_t_pfn(value_) == ShiftRight64(value_, page_shift)

\* Faulty variant: the frame number is taken as the address.
pa_t_from_pfn_unshifted(pfn) == pfn

\* memory.h:55.
pa_t_from_pfn(pfn) == ShiftLeft64(pfn, page_shift)

\* The address object the calls below are made on: the first argument of
\* every call.
AddressValue == call.arg[1]

\* memory.h:103-110, called on a pa_t.
call_pa_t_index(level) ==
  /\ call' = Access("pa_t::index", FALSE, << AddressValue, level >>,
                    << pa_t_index(AddressValue, level) >>)
  /\ UNCHANGED << queue, exit_context_, vmcs, vmx_procbased_ctls, vmx_ctls, bitmaps, halted >>

\* memory.h:156-163, called on a va_t.
call_va_t_index(level) ==
  /\ call' = Access("va_t::index", FALSE, << AddressValue, level >>,
                    << va_t_index(AddressValue, level) >>)
  /\ UNCHANGED << queue, exit_context_, vmcs, vmx_procbased_ctls, vmx_ctls, bitmaps, halted >>

\* memory.h:100, called on a pa_t.
call_pa_t_pfn ==
  /\ call' = Access("pa_t::pfn", FALSE, << AddressValue >>, << pa_t_pfn(AddressValue) >>)
  /\ UNCHANGED << queue, exit_context_, vmcs, vmx_procbased_ctls, vmx_ctls, bitmaps, halted >>

\* memory.h:55, called with the frame number pfn() has just returned.
call_pa_t_from_pfn ==
  /\ call.op = "pa_t::pfn"
  /\ call' = Access("pa_t::from_pfn", FALSE, << AddressValue, call.ret[1] >>,
                    << pa_t_from_pfn(call.ret[1]) >>)
  /\ UNCHANGED << queue, exit_context_, vmcs, vmx_procbased_ctls, vmx_ctls, bitmaps, halted >>

\* Limb values of the addresses: zero, one, the index mask, the top bit, all
\* ones and a mixed pattern.
LimbValues == { 0, 1, 511, 32768, 65535, 43981 }

\* Paging levels pt, pd, pdpt, pml4.
PagingLevels == 0 .. 3

InitMemory ==
  /\ EngineIdle
  /\ vmx_procbased_ctls \in ProcbasedCapabilities
  /\ vmx_ctls = [ msr \in ControlMsrs |-> SupportedControls ]
  /\ BitmapsCleared
  /\ vmcs = << >>
  /\ \E value_ \in [ 1 .. Limbs -> LimbValues ] :
       call = Access("address", FALSE, << value_ >>, << >>)

NextMemory ==
  \/ \E level \in PagingLevels : call_pa_t_index(level)
  \/ \E level \in PagingLevels : call_va_t_index(level)
  \/ call_pa_t_pfn
  \/ call_pa_t_from_pfn

SpecMemory == InitMemory /\ [][NextMemory]_vars

\* Bit j of a 64-bit value.
BitOf(a, j) == ( a[(j \div 16) + 1] \div Pow2(j % 16) ) % 2

RECURSIVE BitField(_, _, _)
\* The n bits of a from bit j upwards, as a number.
BitField(a, j, n) ==
  IF n = 0 THEN 0 ELSE BitOf(a, j) + 2 * BitField(a, j + 1, n - 1)

\* C22: for every address and paging level L in 0..3, pa_t(addr).index(L)
\* and va_t(addr).index(L) are both bits 12+9L .. 20+9L of addr, that is
\* (addr >> (12 + 9L)) & 0x1FF, and lie in 0..511.
C22_PageTableIndex ==
  call.op \in { "pa_t::index", "va_t::index" } =>
    /\ call.ret[1] = BitField(call.arg[1], 12 + 9 * call.arg[2], 9)
    /\ call.ret[1] \in 0 .. 511

\* C22 witness: the pt index of an address whose bits 12..20 span two
\* limbs is 218.
C22_Witness ==
  /\ call.op = "pa_t::index"
  /\ call.arg = << << 43981, 43981, 65535, 65535 >>, 0 >>
  /\ call.ret = << 218 >>

\* C23: for every physical address p, pa_t::from_pfn(p.pfn()) is p with its
\* low 12 bits cleared, where pfn() is p >> 12.
C23_FrameRoundTrip ==
  /\ call.op = "pa_t::pfn" =>
       \A j \in 0 .. 63 :
         BitOf(call.ret[1], j) = IF j + 12 <= 63 THEN BitOf(call.arg[1], j + 12) ELSE 0
  /\ call.op = "pa_t::from_pfn" =>
       call.ret[1] = [ call.arg[1] EXCEPT ![1] = @ - ( @ % 4096 ) ]

\* C23 witness: an address with a non-zero page offset and its top bit set
\* comes back with the offset cleared and the top bit kept.
C23_Witness ==
  /\ call.op = "pa_t::from_pfn"
  /\ call.arg[1] = << 43981, 1, 0, 32768 >>
  /\ call.ret = << << 40960, 1, 0, 32768 >> >>

(***************************************************************************)
(* The injection engine across one VM-exit handling and across exits.      *)
(***************************************************************************)
\* The state after the hypervisor's setup on any processor: the engine as
\* constructed, the processor-based controls holding any adjusted value.
InitSetup ==
  /\ pending_interrupt_ = [ s \in Slots |-> NoInterrupt ]
  /\ pending_interrupt_first_ = 0
  /\ pending_interrupt_count_ = 0
  /\ exit_context_ = [ rflags |-> [ interrupt_enable_flag |-> 1 ] ]
  /\ vmx_procbased_ctls \in ProcbasedCapabilities
  /\ vmx_ctls = [ msr \in ControlMsrs |-> SupportedControls ]
  /\ BitmapsCleared
  /\ \E controls \in SUBSET ProcbasedBits :
       vmcs = [ guest_interruptibility_state |-> 0,
                guest_rflags |-> [ interrupt_enable_flag |-> 1 ],
                vmexit_instruction_length |-> 0,
                ctrl_processor_based_vm_execution_controls |-> adjust(controls),
                ctrl_vmentry_interruption_info |-> NoInterrupt.info_,
                ctrl_vmentry_exception_error_code |-> 0,
                ctrl_vmentry_instruction_length |-> 0 ]
  /\ call = Call("init", NoInterrupt, FALSE, "void")
  /\ halted = FALSE

SpecSetup == InitSetup /\ [][NextHandlers]_vars

\* C24 (as claimed): once interrupt_inject has returned true, no later
\* interrupt_inject or interrupt_inject_pending call of the same VM-exit
\* handling replaces the VM-entry interruption-info written for the event.
C24_AsClaimed ==
  [][ ( /\ call.op = "interrupt_inject"
        /\ call.ret = "true"
        /\ call'.op \in { "interrupt_inject", "interrupt_inject_pending" } ) =>
        entry_info_of(vmcs') = entry_info_of(vmcs) ]_vars

\* C25 (as claimed): while records are queued, interrupt_inject with
\* first = false does not write its event to the VM-entry fields; the event
\* waits behind the queued ones.
C25_AsClaimed ==
  [][ ( /\ call'.op = "interrupt_inject"
        /\ vars' # vars
        /\ ~call'.first
        /\ pending_interrupt_count_ > 0 ) =>
        /\ call'.ret # "true"
        /\ EntryFields(vmcs') = EntryFields(vmcs) ]_vars

\* C26: when only interrupt_inject, interrupt_inject_force,
\* interrupt_inject_pending and VM exits act, on a processor whose capability
\* MSR allows interrupt-window exiting, a non-empty queue implies that the
\* processor-based controls have interrupt_window_exiting set.
C26_WindowArmed ==
  pending_interrupt_count_ > 0 =>
    "interrupt_window_exiting" \in processor_based_controls(vmcs)

\* C26 witness: a record is still queued after interrupt_inject_pending has
\* delivered one, and the window is armed.
C26_Witness ==
  /\ call.op = "interrupt_inject_pending"
  /\ ~halted
  /\ pending_interrupt_count_ = pending_interrupt_queue_size - 1
  /\ "interrupt_window_exiting" \in processor_based_controls(vmcs)

\* C27: interrupt_inject_pending leaves the processor-based controls as they
\* are, also when it delivers the last queued record.
C27_PendingKeepsControls ==
  [][ call'.op = "interrupt_inject_pending" =>
        processor_based_controls(vmcs') = processor_based_controls(vmcs) ]_vars

\* C27 witness: interrupt_inject_pending has delivered the last queued
\* record; the queue is empty and interrupt-window exiting is still enabled.
C27_Witness ==
  /\ call.op = "interrupt_inject_pending"
  /\ ~halted
  /\ pending_interrupt_count_ = 0
  /\ entry_info_of(vmcs) = Int3.info_
  /\ "interrupt_window_exiting" \in processor_based_controls(vmcs)

\* C28: a deferred interrupt_inject leaves the VM-entry interruption-info,
\* error-code and instruction-length fields as they are and changes no bit of
\* the (adjusted) processor-based controls other than interrupt_window_exiting.
C28_DeferredFrame ==
  [][ ( call'.op = "interrupt_inject" /\ call'.ret = "false" /\ vars' # vars ) =>
        /\ EntryFields(vmcs') = EntryFields(vmcs)
        /\ processor_based_controls(vmcs') \ { "interrupt_window_exiting" } =
             processor_based_controls(vmcs) \ { "interrupt_window_exiting" } ]_vars

\* C28 witness: a deferred injection on controls that also hold hlt_exiting.
C28_Witness ==
  /\ call.op = "interrupt_inject"
  /\ call.ret = "false"
  /\ pending_interrupt_count_ = 1
  /\ processor_based_controls(vmcs) =
       { "default1", "hlt_exiting", "interrupt_window_exiting" }
  /\ entry_info_of(vmcs) = NoInterrupt.info_

\* VMCS fields interrupt_inject_force writes.
EntryFieldNames ==
  { "ctrl_vmentry_interruption_info", "ctrl_vmentry_exception_error_code",
    "ctrl_vmentry_instruction_length" }

\* C29: an immediate interrupt_inject leaves the head, the count and every
\* slot of the queue as they are and does not modify the processor-based
\* controls; the VMCS changes as interrupt_inject_force changes it, in the
\* three VM-entry fields only.
C29_ImmediateFrame ==
  [][ ( call'.op = "interrupt_inject" /\ call'.ret = "true" ) =>
        /\ queue' = queue
        /\ processor_based_controls(vmcs') = processor_based_controls(vmcs)
        /\ \A f \in ( DOMAIN vmcs ) \ EntryFieldNames : vmcs'[f] = vmcs[f]
        /\ entry_info_of(vmcs') = call'.interrupt.info_
        /\ vmcs' = interrupt_inject_force(vmcs, call'.interrupt).vmcs ]_vars

\* C29 witness: an immediate injection while two records are queued and the
\* window is armed.
C29_Witness ==
  /\ call.op = "interrupt_inject"
  /\ call.ret = "true"
  /\ pending_interrupt_count_ = 2
  /\ entry_info_of(vmcs) = call.interrupt.info_
  /\ "interrupt_window_exiting" \in processor_based_controls(vmcs)

\* A software-type record whose rip_adjust_ is the sentinel.
SentinelSoftware(interrupt) ==
  /\ interrupt.info_.valid = 1
  /\ interrupt.info_.type \in SoftwareTypes
  /\ interrupt.rip_adjust_ = -1

\* The VM-entry instruction length after the record is delivered in VMCS m.
DeliveredLength(m, interrupt) ==
  entry_length_of(interrupt_inject_force(m, interrupt).vmcs)

\* C30 (as claimed): a software-type record queued with the sentinel during
\* a VM exit that reported a non-zero instruction length is delivered with
\* that length, also after a later VM exit has reported another length.
C30_AsClaimed ==
  [][ ( /\ call.op = "interrupt_inject"
        /\ call.ret = "false"
        /\ SentinelSoftware(call.interrupt)
        /\ exit_instruction_length(vmcs) > 0
        /\ call'.op = "vm_exit" ) =>
        DeliveredLength(vmcs', call.interrupt) = exit_instruction_length(vmcs) ]_vars

(***************************************************************************)
(* Events that announce an error code: every interruption type, with the  *)
(* vectors #PF (14), which the switch of interrupt_inject_force names, and *)
(* #CP (21), which it does not.                                            *)
(***************************************************************************)
control_protection == 21

ErrorCodeEvents ==
  { MkInterrupt(1, type, vector, 1, ec, -1) :
      type \in InterruptTypes, vector \in { page_fault, control_protection },
      ec \in { 0, 66 } }

NextErrorCode ==
  \/ \E interrupt \in ErrorCodeEvents : call_interrupt_inject_force(interrupt)
  \/ \E length \in ExitInstructionLengths :
       vm_exit(0, [ interrupt_enable_flag |-> 1 ], length)

SpecErrorCode == Init /\ [][NextErrorCode]_vars

\* C31 (as claimed): after interrupt_inject_force of a record whose valid and
\* error_code_valid bits are set, whatever its type and vector, the VM-entry
\* exception error-code field holds the record's error code.
C31_AsClaimed ==
  [][ ( /\ Returned("interrupt_inject_force")
        /\ call'.interrupt.info_.valid = 1
        /\ call'.interrupt.info_.error_code_valid = 1 ) =>
        /\ entry_info_of(vmcs').error_code_valid = 1
        /\ entry_error_code_of(vmcs') = call'.interrupt.error_code_ ]_vars

====
